---- MODULE Spec2Model ----
(***************************************************************************)
(* A model of esa/saw.py, the SimAuto wrapper (class SAW).                 *)
(*                                                                         *)
(* Strings that the code inspects character by character (object type      *)
(* names, key-field markers, the first element of a SimAuto result, cell   *)
(* values) are sequences of one-character strings, so that lower(),        *)
(* strip(), the regular expressions, the substring test and to_numeric     *)
(* are computed and not assumed.  Field names are only compared and        *)
(* ordered, and are TLA+ strings.                                          *)
(***************************************************************************)
EXTENDS Integers, Sequences, FiniteSets, TLC

VARIABLES
    output,             \* _call_simauto: what the SimAuto function gave
    returned,           \* _call_simauto: what it returned or raised
    pwcom,              \* self._pwcom: "live", or "none" after exit()
    pwb_file_path,      \* self.pwb_file_path
    object_fields,      \* self._object_fields: lower-case type -> catalog
    object_key_fields,  \* self._object_key_fields
    simauto,            \* the SimAuto server: the open case and its objects
    op,                 \* the public method called last, with its arguments
    calls,              \* the SimAuto functions that method invoked, in order
    result,             \* what that method returned or raised
    fetches,            \* per type: SimAuto GetFieldList calls from the first
                        \* successful one on
    pc,                 \* "idle", or "reread" inside a verified write
    cleaned_df,         \* change_and_confirm_...: the cleaned command table
    df,                 \* change_and_confirm_...: the table read back
    propagated,         \* what a with statement on the session gave its
                        \* caller, once __exit__ has run
    properties,         \* the properties of the SimAuto COM object
    caller_obj,         \* the table the caller passed to the method, as the
                        \* method left it; None when it took no table
    callers             \* the threads that share the session, each inside
                        \* change_and_confirm_params_multiple_element

vars ==
    <<output, returned, pwcom, pwb_file_path, object_fields, object_key_fields,
      simauto, op, calls, result, fetches, pc, cleaned_df, df, propagated,
      properties, caller_obj, callers>>

classify_vars == <<output, returned>>
session_vars ==
    <<pwcom, pwb_file_path, object_fields, object_key_fields, simauto, op,
      calls, result, fetches, pc, cleaned_df, df, propagated, properties,
      caller_obj, callers>>

-----------------------------------------------------------------------------
(* Bounds of the model.                                                    *)

\* Longest tuple a SimAuto function answers with in SpecClassify.
MaxTuple == 3

\* Bare integers a SimAuto function answers with are in -MaxInt..MaxInt.
MaxInt == 2

-----------------------------------------------------------------------------
(* Python values.  Every value is a record tagged by t, so that values of  *)
(* different Python types can be compared.                                 *)

NoneV == [t |-> "none"]
IntV(n) == [t |-> "int", n |-> n]
StrV(s) == [t |-> "str", s |-> s]
TupleV(xs) == [t |-> "tuple", xs |-> xs]
DataV(d) == [t |-> "data", d |-> d]

EmptyStr == << >>
NoDataStr == <<"N", "o", " ", "d", "a", "t", "a">>

\* Python's `sub in s` for strings.
Contains(sub, s) ==
    \E i \in 0..(Len(s) - Len(sub)) : SubSeq(s, i + 1, i + Len(sub)) = sub

-----------------------------------------------------------------------------
(* _call_simauto: the classification of what the SimAuto function gave.    *)

Return(v) == [o |-> "return", val |-> v]
Raise(e) == [o |-> "raise", exc |-> e]
RaisePW(m) == [o |-> "raise", exc |-> "PowerWorldError", msg |-> m]

\* The message built for the bare integer -1.
MinusOneMsg == <<"-", "1">>

IsNoData_Exact(s) == s = NoDataStr
\* 'No data' in output[0]
IsNoData(s) == Contains(NoDataStr, s)

IntSentinel_AnyNegative(n) == n < 0
\* output == -1
IntSentinel(n) == n = -1

Payload_KeepFirst(xs) == IF Len(xs) = 2 THEN xs[2] ELSE TupleV(xs)
\* output[1] for a result of length 2, output[1:] otherwise.
Payload(xs) == IF Len(xs) = 2 THEN xs[2] ELSE TupleV(SubSeq(xs, 2, Len(xs)))

\* The try block: pass, raise PowerWorldError, or the exception Python
\* raises while evaluating the conditions.  "pass" means fall through.
ErrorCheck(out) ==
    CASE out.t = "none" -> "pass"
      [] out.t = "int" -> "TypeError:not subscriptable"
      [] out.t = "tuple" /\ Len(out.xs) = 0 -> "IndexError"
      [] out.t = "tuple" /\ Len(out.xs) > 0 ->
            LET first == out.xs[1]
            IN  IF first = StrV(EmptyStr) THEN "pass"
                ELSE IF first.t # "str" THEN "TypeError:not iterable"
                ELSE IF IsNoData(first.s) THEN "pass"
                ELSE "PowerWorldError"

\* The whole of _call_simauto after the call of the SimAuto function.
Classify(out) ==
    IF out = TupleV(<<StrV(EmptyStr)>>) THEN Return(NoneV)
    ELSE LET chk == ErrorCheck(out)
         IN  CASE chk = "PowerWorldError" -> RaisePW(out.xs[1].s)
               [] chk = "IndexError" -> Raise("IndexError")
               [] chk = "TypeError:not iterable" -> Raise("TypeError")
               [] chk = "TypeError:not subscriptable" ->
                     IF IntSentinel(out.n) THEN RaisePW(MinusOneMsg)
                     ELSE Return(out)
               [] chk = "pass" ->
                     IF out.t = "none" THEN Raise("TypeError")
                     ELSE Return(Payload(out.xs))

-----------------------------------------------------------------------------
(* What a SimAuto function can answer with.                                *)

FirstElements ==
    { StrV(EmptyStr),
      StrV(NoDataStr),
      StrV(<<"E", ":">> \o NoDataStr),
      StrV(NoDataStr \o <<"!">>),
      StrV(<<"E", "r", "r">>),
      StrV(<<"n", "o", " ", "d", "a", "t", "a">>),
      StrV(<<"N", "o">>),
      NoneV }

PayloadElements == { DataV(1), DataV(2), NoneV }

TuplesOfLen(n) ==
    { xs \in [1..n -> FirstElements \cup PayloadElements] :
        /\ n > 0 => xs[1] \in FirstElements
        /\ \A i \in 2..n : xs[i] \in PayloadElements }

RawOutputs ==
    { TupleV(xs) : xs \in UNION { TuplesOfLen(n) : n \in 0..MaxTuple } }
        \cup { IntV(n) : n \in (0 - MaxInt)..MaxInt }
        \cup { NoneV }

-----------------------------------------------------------------------------
(* Strings.                                                                *)

Range(f) == { f[i] : i \in DOMAIN f }

UpperChars == {"A", "B", "E", "G", "N", "S", "U"}
DigitChars == {"0", "1", "2", "3", "4", "5", "6", "7", "8", "9"}

\* str.lower(), one character.
LowerChar(c) ==
    CASE c = "A" -> "a" [] c = "B" -> "b" [] c = "E" -> "e" [] c = "G" -> "g"
      [] c = "N" -> "n" [] c = "S" -> "s" [] c = "U" -> "u" [] OTHER -> c

\* str.lower()
Lower(s) == [i \in 1..Len(s) |-> LowerChar(s[i])]

DigitVal(c) ==
    CASE c = "0" -> 0 [] c = "1" -> 1 [] c = "2" -> 2 [] c = "3" -> 3
      [] c = "4" -> 4 [] c = "5" -> 5 [] c = "6" -> 6 [] c = "7" -> 7
      [] c = "8" -> 8 [] c = "9" -> 9

RECURSIVE DigitsToNat(_)
DigitsToNat(s) ==
    IF Len(s) = 0 THEN 0
    ELSE 10 * DigitsToNat(SubSeq(s, 1, Len(s) - 1)) + DigitVal(s[Len(s)])

IsDigits(s) == Len(s) > 0 /\ \A i \in 1..Len(s) : s[i] \in DigitChars

\* The characters of s that are not in the set drop, in order.
RECURSIVE Without(_, _)
Without(s, drop) ==
    IF Len(s) = 0 THEN << >>
    ELSE IF s[1] \in drop THEN Without(Tail(s), drop)
    ELSE <<s[1]>> \o Without(Tail(s), drop)

-----------------------------------------------------------------------------
(* The field catalog of an object type (GetFieldList) and its key fields.  *)
(* A catalog row keeps the three columns the code reads; description and   *)
(* display_name are carried by pandas and never read.                      *)

Row(k, n, d) == [key_field |-> k, internal_field_name |-> n, field_data_type |-> d]

\* Python's order of the field names of the model (str comparison, which
\* is what sort_values and searchsorted use on the name column).
FieldOrder ==
    <<"AAA", "Bogus", "BusName", "BusNum", "GenID", "GenMVR", "GenMW",
      "GenStatus", "Zzz">>

NameRank(n) == CHOOSE i \in 1..Len(FieldOrder) : FieldOrder[i] = n

SortByName_Kept(rows) == rows
\* output.sort_values(by=['internal_field_name'])
SortByName(rows) ==
    [i \in 1..Len(rows) |->
        CHOOSE r \in Range(rows) :
            Cardinality({ q \in Range(rows) :
                NameRank(q.internal_field_name) < NameRank(r.internal_field_name) })
                = i - 1]

\* str.match(r'\*[0-9]+[A-Z]*\*'): the pattern matches a prefix of m.
MatchesKeyPattern(m) ==
    \E d \in 1..Len(m), l \in 0..Len(m) :
        /\ Len(m) >= 2 + d + l
        /\ m[1] = "*"
        /\ \A i \in 2..(1 + d) : m[i] \in DigitChars
        /\ \A i \in (2 + d)..(1 + d + l) : m[i] \in UpperChars
        /\ m[2 + d + l] = "*"

\* str.replace(r'\*', '') then str.replace('[A-Z]*', '')
StripMarker(m) == Without(Without(m, {"*"}), UpperChars)

\* pd.to_numeric(key_field) - 1; NoIndex when to_numeric raises.
NoIndex == -2
KeyFieldIndex(m) ==
    LET t == StripMarker(m)
    IN  IF IsDigits(t) THEN DigitsToNat(t) - 1 ELSE NoIndex

KeyRow(i, r) ==
    [key_field_index |-> i,
     internal_field_name |-> r.internal_field_name,
     field_data_type |-> r.field_data_type]

\* key_field_df.sort_index(): the rows in ascending order of the index.
SortByIndex(krows) ==
    [i \in 1..Len(krows) |->
        CHOOSE r \in Range(krows) :
            Cardinality({ q \in Range(krows) : q.key_field_index < r.key_field_index })
                = i - 1]

IndexDense_Unchecked(krows) == TRUE
\* np.array_equal(index, np.arange(0, index[-1] + 1))
IndexDense(krows) ==
    /\ Len(krows) = krows[Len(krows)].key_field_index + 1
    /\ \A i \in 1..Len(krows) : krows[i].key_field_index = i - 1

\* Lines 350-383 of get_key_fields_for_object_type: the key-field table
\* of a catalog, or the exception raised on the way.
DeriveKeyFields(field_list) ==
    LET sel == SelectSeq(field_list, LAMBDA r : MatchesKeyPattern(r.key_field))
        krows == [i \in 1..Len(sel) |-> KeyRow(KeyFieldIndex(sel[i].key_field), sel[i])]
    IN  IF \E i \in 1..Len(krows) : krows[i].key_field_index = NoIndex
            THEN Raise("ValueError")
        ELSE IF \E i, j \in 1..Len(krows) :
                    i # j /\ krows[i].key_field_index = krows[j].key_field_index
            THEN Raise("ValueError")
        ELSE IF Len(krows) = 0
            THEN Raise("IndexError")
        ELSE IF ~IndexDense(SortByIndex(krows))
            THEN Raise("AssertionError")
        ELSE Return([t |-> "keys", rows |-> SortByIndex(krows)])

-----------------------------------------------------------------------------
(* The SimAuto server, as far as the wrapper observes it.                  *)

GenType == <<"g", "e", "n">>
BusType == <<"b", "u", "s">>
CanonTypes == { GenType, BusType }

\* ObjectType arguments the caller passes.
ObjectTypeNames ==
    { GenType, <<"G", "e", "n">>, <<"G", "E", "N">>, BusType }

M_First == <<"*", "1", "*">>
M_SecondB == <<"*", "2", "B", "*">>
M_Third == <<"*", "3", "*">>
M_Required == <<"*", "*">>
M_Composite == <<"*", "A", "*">>
M_None == << >>

GenRows(kBus, kID) ==
    << Row(M_None, "GenMW", "Real"),
       Row(kID, "GenID", "String"),
       Row(M_Required, "GenStatus", "String"),
       Row(kBus, "BusNum", "Integer") >>

\* The catalogs SimAuto's GetFieldList may answer with, in SimAuto's row
\* order: for a generator a well formed one, or one with a gap in the key
\* positions.
RemoteCatalogs(ot) ==
    IF ot = GenType
    THEN { GenRows(M_First, M_SecondB), GenRows(M_First, M_Third) }
    ELSE { << Row(M_First, "BusNum", "Integer"),
              Row(M_Composite, "BusName", "String") >> }

RowsV(rows) == [t |-> "rows", rows |-> rows]
KeysV(rows) == [t |-> "keys", rows |-> rows]

Thrown == [t |-> "thrown"]
OkAnswer == TupleV(<<StrV(EmptyStr)>>)
ErrorAnswer == TupleV(<<StrV(<<"E", "r", "r">>)>>)

FieldListAnswers(ot) ==
    { TupleV(<<StrV(EmptyStr), RowsV(c)>>) : c \in RemoteCatalogs(ot) }
        \cup { OkAnswer, ErrorAnswer, Thrown }

HasCatalog_Never(of, ot) == FALSE
\* try: output = self._object_fields[object_type]
HasCatalog(of, ot) == ot \in DOMAIN of

\* What GetFieldList is answered when the wrapper asks; when the catalog is
\* cached the wrapper does not ask, and the answer is immaterial.
FieldListAnswersFor(of, ObjectType) ==
    IF HasCatalog(of, Lower(ObjectType)) THEN { Thrown }
    ELSE FieldListAnswers(Lower(ObjectType))

\* Path(p).as_posix()
convert_to_posix_path(p) == [i \in 1..Len(p) |-> IF p[i] = "\\" THEN "/" ELSE p[i]]
\* str(PureWindowsPath(p))
convert_to_windows_path(p) == [i \in 1..Len(p) |-> IF p[i] = "/" THEN "\\" ELSE p[i]]

PathA == <<"C", ":", "/", "a">>
PathB == <<"b">>
FileNames == { <<"C", ":", "\\", "a">>, PathB }

Gen(bus, mw, st) ==
    [BusNum |-> IntV(bus), GenID |-> StrV(<<"1">>), GenMW |-> IntV(mw),
     GenStatus |-> StrV(st)]

Open == <<"O", "p", "e", "n">>
Closed == <<"C", "l", "o", "s", "e", "d">>

\* The generators of the case files: case a has one, case b has none.
CaseData(path) ==
    IF path = PathA THEN { Gen(1, 7, Open), Gen(2, 100000, Closed) }
    ELSE { Gen(1, 100000, Open) }

-----------------------------------------------------------------------------
(* _call_simauto with the call itself.                                     *)

\* getattr(self._pwcom, func) fails after exit(); f(*args) may throw.
CallSimauto(pw, answer) ==
    IF pw = "none" THEN Raise("AttributeError")
    ELSE IF answer = Thrown THEN Raise("COMError")
    ELSE Classify(answer)

Logged_Twice(pw, entry, r) ==
    IF pw = "none" THEN << >>
    ELSE << entry @@ [raised |-> r.o = "raise"], entry @@ [raised |-> r.o = "raise"] >>
\* The log entry of one invocation of a SimAuto function, r being what
\* _call_simauto made of it.
Logged(pw, entry, r) ==
    IF pw = "none" THEN << >> ELSE << entry @@ [raised |-> r.o = "raise"] >>

-----------------------------------------------------------------------------
(* The schema cache.                                                       *)

StoreCatalog_Reset(of, ot, cat) == [x \in {ot} |-> cat]
\* self._object_fields[object_type] = output
StoreCatalog(of, ot, cat) == [x \in DOMAIN of \cup {ot} |-> IF x = ot THEN cat ELSE of[x]]

GetFieldListStep_Retried(of, pw, ObjectType, answer) ==
    LET ot == Lower(ObjectType)
        r == CallSimauto(pw, answer)
        log == Logged(pw, [f |-> "GetFieldList", ot |-> ot], r)
    IN  IF HasCatalog(of, ot)
        THEN [of |-> of, calls |-> << >>, res |-> Return(RowsV(of[ot]))]
        ELSE IF r.o = "raise" THEN [of |-> of, calls |-> log \o log, res |-> r]
        ELSE IF r.val.t # "rows"
            THEN [of |-> of, calls |-> log, res |-> Raise("ValueError")]
        ELSE [of |-> StoreCatalog(of, ot, SortByName(r.val.rows)), calls |-> log,
              res |-> Return(RowsV(SortByName(r.val.rows)))]

GetFieldListStep_FailureCached(of, pw, ObjectType, answer) ==
    LET ot == Lower(ObjectType)
        r == CallSimauto(pw, answer)
        log == Logged(pw, [f |-> "GetFieldList", ot |-> ot], r)
    IN  IF HasCatalog(of, ot)
        THEN [of |-> of, calls |-> << >>, res |-> Return(RowsV(of[ot]))]
        ELSE IF r.o = "raise"
            THEN [of |-> StoreCatalog(of, ot, << >>), calls |-> log, res |-> r]
        ELSE IF r.val.t # "rows"
            THEN [of |-> of, calls |-> log, res |-> Raise("ValueError")]
        ELSE [of |-> StoreCatalog(of, ot, SortByName(r.val.rows)), calls |-> log,
              res |-> Return(RowsV(SortByName(r.val.rows)))]

\* GetFieldList: the cached catalog, or the one fetched, sorted and cached.
GetFieldListStep(of, pw, ObjectType, answer) ==
    LET ot == Lower(ObjectType)
    IN  IF HasCatalog(of, ot)
        THEN [of |-> of, calls |-> << >>, res |-> Return(RowsV(of[ot]))]
        ELSE LET r == CallSimauto(pw, answer)
                 log == Logged(pw, [f |-> "GetFieldList", ot |-> ot], r)
             IN  IF r.o = "raise" THEN [of |-> of, calls |-> log, res |-> r]
                 ELSE IF r.val.t # "rows"
                     THEN [of |-> of, calls |-> log, res |-> Raise("ValueError")]
                 ELSE LET sorted == SortByName(r.val.rows)
                      IN  [of |-> StoreCatalog(of, ot, sorted), calls |-> log,
                           res |-> Return(RowsV(sorted))]

\* Lines 386-388: the key fields derived from the catalog fl gave are
\* cached and returned; an exception of the derivation propagates.
KeyFieldsStored(fl, d, okf, ot) ==
    [of |-> fl.of,
     okf |-> IF d.o = "raise" THEN okf
             ELSE [x \in DOMAIN okf \cup {ot} |-> IF x = ot THEN d.val.rows ELSE okf[x]],
     calls |-> fl.calls, res |-> d]

\* Lines 335-383, fl being what GetFieldList did.
KeyFieldsFrom(fl, okf, ot) ==
    IF fl.res.o = "raise"
    THEN [of |-> fl.of, okf |-> okf, calls |-> fl.calls, res |-> fl.res]
    ELSE KeyFieldsStored(fl, DeriveKeyFields(fl.res.val.rows), okf, ot)

\* get_key_fields_for_object_type
GetKeyFieldsStep(of, okf, pw, ObjectType, answer) ==
    IF Lower(ObjectType) \in DOMAIN okf
    THEN [of |-> of, okf |-> okf, calls |-> << >>,
          res |-> Return(KeysV(okf[Lower(ObjectType)]))]
    ELSE KeyFieldsFrom(GetFieldListStep(of, pw, Lower(ObjectType), answer), okf,
                       Lower(ObjectType))

\* The number of entries of a call log for GetFieldList of type ot.
FieldListCalls(log, ot) ==
    Cardinality({ i \in 1..Len(log) : log[i].f = "GetFieldList" /\ log[i].ot = ot })

\* History: per type, the SimAuto GetFieldList calls counted from the first
\* one that gave a catalog (counted up to 2).
NextFetches(f, log, of2) ==
    [ot \in CanonTypes |->
        LET n == FieldListCalls(log, ot)
            m == IF f[ot] >= 1 THEN f[ot] + n
                 ELSE IF ot \in DOMAIN of2 THEN n ELSE 0
        IN  IF m > 2 THEN 2 ELSE m]

-----------------------------------------------------------------------------
(* Cell values, and the cleaning of a DataFrame (clean_df_or_series).      *)
(* A DataFrame is [columns, index, data], data being the rows in order.    *)

NaNV == [t |-> "nan"]
BadV == [t |-> "bad"]

DigitChar(d) ==
    CASE d = 0 -> "0" [] d = 1 -> "1" [] d = 2 -> "2" [] d = 3 -> "3"
      [] d = 4 -> "4" [] d = 5 -> "5" [] d = 6 -> "6" [] d = 7 -> "7"
      [] d = 8 -> "8" [] d = 9 -> "9"

\* str(n) for a natural number.
RECURSIVE NatToDigits(_)
NatToDigits(n) ==
    IF n < 10 THEN <<DigitChar(n)>>
    ELSE NatToDigits(n \div 10) \o <<DigitChar(n % 10)>>

RECURSIVE LStrip(_)
LStrip(s) == IF Len(s) > 0 /\ s[1] = " " THEN LStrip(Tail(s)) ELSE s

RECURSIVE RStrip(_)
RStrip(s) ==
    IF Len(s) > 0 /\ s[Len(s)] = " " THEN RStrip(SubSeq(s, 1, Len(s) - 1)) ELSE s

\* str.strip()
Strip(s) == LStrip(RStrip(s))

\* pd.to_numeric of one cell; BadV when it raises ValueError.
ToNumeric(c) ==
    CASE c.t = "int" -> c
      [] c.t = "nan" -> c
      [] c.t = "none" -> NaNV
      [] c.t = "str" ->
            IF IsDigits(Strip(c.s)) THEN IntV(DigitsToNat(Strip(c.s))) ELSE BadV

\* astype(str) of one cell, then str.strip().
ToStripped(c) ==
    CASE c.t = "str" -> StrV(Strip(c.s))
      [] c.t = "int" -> StrV(NatToDigits(c.n))
      [] c.t = "nan" -> StrV(<<"n", "a", "n">>)
      [] c.t = "none" -> StrV(<<"N", "o", "n", "e">>)

Table(cols, idx, data) == [columns |-> cols, index |-> idx, data |-> data]
TableV(tab) == [t |-> "table", tab |-> tab]

ColumnOf(tab, name) == CHOOSE j \in 1..Len(tab.columns) : tab.columns[j] = name

\* The left insertion point of f in the sorted names (numpy searchsorted),
\* 0-based, by bisection of names[lo..hi).
RECURSIVE Bisect(_, _, _, _)
Bisect(names, f, lo, hi) ==
    IF lo >= hi THEN lo
    ELSE LET mid == (lo + hi) \div 2
         IN  IF NameRank(names[mid + 1]) < NameRank(f)
             THEN Bisect(names, f, mid + 1, hi)
             ELSE Bisect(names, f, lo, mid)

searchsorted(names, fields) ==
    [i \in 1..Len(fields) |-> Bisect(names, fields[i], 0, Len(names))]

NUMERIC_TYPES_IntegerOnly == {"Integer"}
\* NUMERIC_TYPES = DATA_TYPES[0:2]
NUMERIC_TYPES == {"Integer", "Real"}

IdentifyNumeric_Lenient(field_list, fields) ==
    Return([i \in 1..Len(fields) |->
              \E k \in 1..Len(field_list) :
                  /\ field_list[k].internal_field_name = fields[i]
                  /\ field_list[k].field_data_type \in NUMERIC_TYPES])

IdentifyNumeric_IndexOnly(field_list, fields) ==
    LET names == [i \in 1..Len(field_list) |-> field_list[i].internal_field_name]
        idx == searchsorted(names, fields)
    IN  IF \E i \in 1..Len(idx) : idx[i] >= Len(names)
            THEN Raise("ValueError")
        ELSE Return([i \in 1..Len(idx) |->
                        field_list[idx[i] + 1].field_data_type \in NUMERIC_TYPES])

\* identify_numeric_fields after GetFieldList: the mask, or ValueError.
IdentifyNumeric(field_list, fields) ==
    LET names == [i \in 1..Len(field_list) |-> field_list[i].internal_field_name]
        idx == searchsorted(names, fields)
    IN  IF \E i \in 1..Len(idx) : idx[i] >= Len(names)
            THEN Raise("ValueError")
        ELSE IF { names[idx[i] + 1] : i \in 1..Len(idx) } # Range(fields)
            THEN Raise("ValueError")
        ELSE Return([i \in 1..Len(idx) |->
                        field_list[idx[i] + 1].field_data_type \in NUMERIC_TYPES])

\* Lines 269-285: numeric columns through pd.to_numeric, the others through
\* astype(str) and strip().
Coerce(data, numeric) ==
    [i \in 1..Len(data) |->
        [j \in 1..Len(data[i]) |->
            IF numeric[j] THEN ToNumeric(data[i][j]) ELSE ToStripped(data[i][j])]]

HasBad(data) == \E i \in 1..Len(data) : \E j \in 1..Len(data[i]) : data[i][j] = BadV

Perms(n) == { p \in [1..n -> 1..n] : \A i, j \in 1..n : p[i] = p[j] => i = j }

\* a sorts strictly before b (sort_values: ascending, NaN last).
CellBefore(a, b) == a.t = "int" /\ (b.t = "nan" \/ (b.t = "int" /\ a.n < b.n))

SortOrders_Unsorted(data, j) == { [i \in 1..Len(data) |-> i] }
\* obj.sort_values(by='BusNum'): the row orders the sort may produce; it is
\* not a stable sort, so rows with equal BusNum may come in any order.
SortOrders(data, j) ==
    { p \in Perms(Len(data)) :
        \A a, b \in 1..Len(data) : a < b => ~CellBefore(data[p[b]][j], data[p[a]][j]) }

\* clean_df_or_series on a DataFrame, after identify_numeric_fields gave
\* the mask: the set of possible outcomes.
CleanOutcomes(tab, numeric) ==
    LET data == Coerce(tab.data, numeric)
    IN  IF HasBad(data) THEN { Raise("ValueError") }
        ELSE IF \E j \in 1..Len(tab.columns) : tab.columns[j] = "BusNum"
        THEN { Return(TableV(Table(tab.columns,
                                   [i \in 1..Len(data) |-> i - 1],
                                   [i \in 1..Len(data) |-> data[p[i]]]))) :
                 p \in SortOrders(data, ColumnOf(tab, "BusNum")) }
        ELSE { Return(TableV(Table(tab.columns, tab.index, data))) }

-----------------------------------------------------------------------------
(* SimAuto's answers to the reads and writes of object data.  Only          *)
(* generators exist in the cases; no case has a bus object.                 *)

ColsV(cols) == [t |-> "cols", cols |-> cols]
Col(cells) == [t |-> "col", cells |-> cells]

NoData1 == TupleV(<<StrV(NoDataStr)>>)
NoData2 == TupleV(<<StrV(NoDataStr), NoneV>>)

RemoteKeys == {"BusNum", "GenID"}
Writable == {"GenMW", "GenStatus"}
RemoteFields == RemoteKeys \cup Writable

\* SimAuto gives every value as a string, numbers padded on the left and
\* text padded on the right.
FormatCell(c) ==
    IF c.t = "int" THEN StrV(<<" ">> \o NatToDigits(c.n)) ELSE StrV(c.s \o <<" ">>)

\* The objects of a type in the order SimAuto lists them: descending BusNum.
ObjectsOf(sa, ot) ==
    LET gens == IF ot = GenType THEN sa.gens ELSE { }
    IN  [i \in 1..Cardinality(gens) |->
            CHOOSE e \in gens :
                Cardinality({ q \in gens : q.BusNum.n > e.BusNum.n }) = i - 1]

ReadColumns(els, ParamList) ==
    [j \in 1..Len(ParamList) |->
        Col([i \in 1..Len(els) |->
                IF ParamList[j] \in RemoteFields
                THEN FormatCell(els[i][ParamList[j]]) ELSE NoneV])]

\* What GetParametersMultipleElement may be answered.
ReadAnswers(sa, ot, ParamList) ==
    LET els == ObjectsOf(sa, ot)
    IN  IF Len(els) = 0 THEN { OkAnswer, NoData1, NoData2, Thrown }
        ELSE { TupleV(<<StrV(EmptyStr), ColsV(ReadColumns(els, ParamList))>>),
               ErrorAnswer, Thrown }

\* pd.DataFrame(np.array(output).transpose(), columns=ParamList)
FrameOf(val, ParamList) ==
    IF val.t = "cols" /\ Len(val.cols) = Len(ParamList)
    THEN LET n == Len(val.cols[1].cells)
         IN  Return(TableV(Table(ParamList, [i \in 1..n |-> i - 1],
                 [i \in 1..n |-> [j \in 1..Len(ParamList) |-> val.cols[j].cells[i]]])))
    ELSE IF val = TupleV(<< >>) /\ Len(ParamList) = 1
    THEN Return(TableV(Table(ParamList, << >>, << >>)))
    ELSE Raise("ValueError")

\* The last row of a command table that names object e, or 0.
LastRowFor(tab, e) ==
    LET hits == { i \in 1..Len(tab.data) :
                    \A k \in RemoteKeys : tab.data[i][ColumnOf(tab, k)] = e[k] }
    IN  IF hits = { } THEN 0 ELSE CHOOSE i \in hits : \A h \in hits : h <= i

\* The objects after SimAuto applied a command table, except the columns
\* it silently refuses.  Rows naming no object are ignored.
ApplyWrite(gens, tab, refused) ==
    { LET i == LastRowFor(tab, e)
      IN  IF i = 0 THEN e
          ELSE [f \in DOMAIN e |->
                  IF f \in Writable /\ f \in Range(tab.columns) /\ f \notin refused
                  THEN tab.data[i][ColumnOf(tab, f)] ELSE e[f]] : e \in gens }

\* What ChangeParametersMultipleElement may be answered, with the state
\* SimAuto is left in.
WriteOutcomes(sa, ot, tab) ==
    IF ot # GenType
    THEN { [answer |-> a, sa |-> sa] : a \in { OkAnswer, ErrorAnswer, Thrown } }
    ELSE IF ~(RemoteKeys \subseteq Range(tab.columns))
    THEN { [answer |-> a, sa |-> sa] : a \in { ErrorAnswer, Thrown } }
    ELSE { [answer |-> OkAnswer,
            sa |-> [sa EXCEPT !.gens = ApplyWrite(sa.gens, tab, refused)]] :
                refused \in SUBSET (Writable \cap Range(tab.columns)) }
         \cup { [answer |-> ErrorAnswer, sa |-> sa], [answer |-> Thrown, sa |-> sa],
                [answer |-> Thrown,
                 sa |-> [sa EXCEPT !.gens = ApplyWrite(sa.gens, tab, { })]] }

-----------------------------------------------------------------------------
(* _df_equiv_subset_of_other.                                              *)

Abs(x) == IF x < 0 THEN 0 - x ELSE x

\* np.isclose(a, b) with numpy's defaults: |a - b| <= 1e-8 + 1e-5 * |b|,
\* which for whole numbers is |a - b| <= |b| div 100000; never for NaN.
IsClose(a, b) ==
    /\ a.t = "int"
    /\ b.t = "int"
    /\ Abs(a.n - b.n) <= Abs(b.n) \div 100000

\* pd.merge(df1, df2, how='inner', on=on): the pairs of rows joined.
MergedPairs(df1, df2, on) ==
    { <<i, j>> \in (1..Len(df1.data)) \X (1..Len(df2.data)) :
        \A k \in Range(on) :
            df1.data[i][ColumnOf(df1, k)] = df2.data[j][ColumnOf(df2, k)] }

\* pd.merge raises when df2 is None or a key column is missing.
MergeError(df1, df2, on) ==
    IF df2 = NoneV THEN Raise("TypeError")
    ELSE IF \E k \in Range(on) :
                k \notin Range(df1.columns) \/ k \notin Range(df2.tab.columns)
    THEN Raise("KeyError")
    ELSE Return(NoneV)

\* Lines 1511-1536 on the merge of df1 and t2: True, False or ValueError.
CompareMerged(df1, t2, on, field_list) ==
    LET pairs == MergedPairs(df1, t2, on)
        cols_in == SelectSeq(df1.columns,
                       LAMBDA c : c \notin Range(on) /\ c \in Range(t2.columns))
        cols_out == SelectSeq(t2.columns,
                       LAMBDA c : c \notin Range(on) /\ c \in Range(df1.columns))
        numeric == IdentifyNumeric(field_list, cols_in)
        Same(p, k) ==
            LET a == df1.data[p[1]][ColumnOf(df1, cols_in[k])]
                b == t2.data[p[2]][ColumnOf(t2, cols_out[k])]
            IN  IF numeric.val[k] THEN IsClose(a, b) ELSE a = b
    IN  IF numeric.o = "raise" THEN numeric
        ELSE Return(\A p \in pairs : \A k \in 1..Len(cols_in) : Same(p, k))

-----------------------------------------------------------------------------
(* The data methods as functions of the session state and of SimAuto's      *)
(* answers.  Each gives the caches and the call log it leaves, and its      *)
(* outcome (or the set of its possible outcomes).                           *)

\* Lines 267-298, numeric being what identify_numeric_fields gave.
CleanMasked(fl, numeric, obj) ==
    [of |-> fl.of, calls |-> fl.calls,
     outs |-> IF numeric.o = "raise" THEN { numeric }
              ELSE CleanOutcomes(obj.tab, numeric.val)]

\* Lines 265-298, fl being what GetFieldList did in identify_numeric_fields.
CleanCatalog(fl, obj) ==
    IF fl.res.o = "raise" THEN [of |-> fl.of, calls |-> fl.calls, outs |-> { fl.res }]
    ELSE CleanMasked(fl, IdentifyNumeric(fl.res.val.rows, obj.tab.columns), obj)

ObjAfterClean_Copied(obj, out) == obj
\* Lines 269-298: the object given to clean_df_or_series once it ended as
\* out.  The columns are assigned into obj, the rows sorted in place and
\* the index set on obj; an exception (of the type check, of
\* identify_numeric_fields, of pd.to_numeric) comes before the first
\* assignment.
ObjAfterClean(obj, out) == IF out.o = "raise" THEN obj ELSE out.val

\* clean_df_or_series
CleanStep(of, pw, obj, ObjectType, answer) ==
    IF obj.t # "table"
    THEN [of |-> of, calls |-> << >>, outs |-> { Raise("TypeError") }]
    ELSE CleanCatalog(GetFieldListStep(of, pw, ObjectType, answer), obj)

\* The calls of a method and then those of the cleaning of its table.
Cleaned(c, log) == [of |-> c.of, calls |-> log \o c.calls, outs |-> c.outs]

\* Lines 819-825
ReadFramed(frame, log, of, pw, ObjectType, fl) ==
    IF frame.o = "raise" THEN [of |-> of, calls |-> log, outs |-> { frame }]
    ELSE Cleaned(CleanStep(of, pw, frame.val, ObjectType, fl), log)

\* Lines 815-825, r being what _call_simauto returned or raised.
ReadAnswered(r, log, of, pw, ObjectType, ParamList, fl) ==
    IF r.o = "raise" THEN [of |-> of, calls |-> log, outs |-> { r }]
    ELSE IF r.val = NoneV THEN [of |-> of, calls |-> log, outs |-> { Return(NoneV) }]
    ELSE ReadFramed(FrameOf(r.val, ParamList), log, of, pw, ObjectType, fl)

\* GetParametersMultipleElement
ReadStep(of, pw, ObjectType, ParamList, answer, fl) ==
    ReadAnswered(CallSimauto(pw, answer),
                 Logged(pw, [f |-> "GetParametersMultipleElement",
                             ot |-> Lower(ObjectType), ParamList |-> ParamList],
                        CallSimauto(pw, answer)),
                 of, pw, ObjectType, ParamList, fl)

WriteAnswered_ErrorIgnored(c, cleaned, w, r, pw, sa, ot) ==
    [of |-> c.of,
     calls |-> c.calls \o Logged(pw, [f |-> "ChangeParametersMultipleElement", ot |-> ot,
                                      ParamList |-> cleaned.val.tab.columns], r),
     sa |-> IF pw = "none" THEN sa ELSE w.sa,
     cleaned |-> cleaned,
     res |-> cleaned]

\* Lines 1474-1478: the write w of the cleaned table, r being what
\* _call_simauto returned or raised.
WriteAnswered(c, cleaned, w, r, pw, sa, ot) ==
    [of |-> c.of,
     calls |-> c.calls \o Logged(pw, [f |-> "ChangeParametersMultipleElement", ot |-> ot,
                                      ParamList |-> cleaned.val.tab.columns], r),
     sa |-> IF pw = "none" THEN sa ELSE w.sa,
     cleaned |-> cleaned,
     res |-> IF r.o = "raise" THEN r ELSE cleaned]

\* Lines 1469-1478, c being what clean_df_or_series did.
WritesOfCleaned(c, pw, sa, ot) ==
    UNION { IF out.o = "raise"
            THEN { [of |-> c.of, calls |-> c.calls, sa |-> sa, cleaned |-> out,
                    res |-> out] }
            ELSE { WriteAnswered(c, out, w, CallSimauto(pw, w.answer), pw, sa, ot) :
                     w \in WriteOutcomes(sa, ot, out.val.tab) }
            : out \in c.outs }

\* _change_parameters_multiple_element_df: each way it may go, with the
\* state SimAuto is left in; res is the cleaned table or the exception.
WriteSteps(of, pw, sa, ObjectType, command_df, fl) ==
    WritesOfCleaned(CleanStep(of, pw, command_df, ObjectType, fl), pw, sa,
                    Lower(ObjectType))

NotRespected_Never(eq) == Return(NoneV)
\* Lines 195-203
NotRespected(eq) ==
    IF eq.o = "raise" THEN eq
    ELSE IF eq.val THEN Return(NoneV) ELSE Raise("CommandNotRespectedError")

KeyNames(kf) == [i \in 1..Len(kf.rows) |-> kf.rows[i].internal_field_name]

\* Lines 1519-1536, g being what GetFieldList did in identify_numeric_fields.
EquivCompared(kf, g, df1, df2) ==
    [of |-> g.of, okf |-> kf.okf, calls |-> kf.calls \o g.calls,
     res |-> IF g.res.o = "raise" THEN g.res
             ELSE NotRespected(CompareMerged(df1, df2.tab, KeyNames(kf.res.val),
                                             g.res.val.rows))]

\* Lines 1505-1536, m being what pd.merge did.
EquivMerged(kf, m, pw, df1, df2, ObjectType, fl) ==
    IF m.o = "raise"
    THEN [of |-> kf.of, okf |-> kf.okf, calls |-> kf.calls, res |-> m]
    ELSE EquivCompared(kf, GetFieldListStep(kf.of, pw, ObjectType, fl), df1, df2)

\* Lines 1502-1536, kf being what get_key_fields_for_object_type did.
EquivKeyed(kf, pw, df1, df2, ObjectType, fl) ==
    IF kf.res.o = "raise" THEN kf
    ELSE EquivMerged(kf, MergeError(df1, df2, KeyNames(kf.res.val)), pw, df1, df2,
                     ObjectType, fl)

\* _df_equiv_subset_of_other, and what the verified write makes of it.
EquivStep(of, okf, pw, df1, df2, ObjectType, fl) ==
    EquivKeyed(GetKeyFieldsStep(of, okf, pw, ObjectType, fl), pw, df1, df2,
               ObjectType, fl)

\* What ListOfDevices may be answered: a column per key field, all None
\* when the case has no object of the type.
ListAnswers(sa, ot) ==
    IF Len(ObjectsOf(sa, ot)) = 0
    THEN { TupleV(<<StrV(EmptyStr),
                    ColsV(IF ot = GenType THEN <<NoneV, NoneV>> ELSE <<NoneV>>)>>),
           OkAnswer, Thrown }
    ELSE { TupleV(<<StrV(EmptyStr),
                    ColsV(ReadColumns(ObjectsOf(sa, ot), <<"BusNum", "GenID">>))>>),
           ErrorAnswer, Thrown }

\* Lines 1002-1026, r being what _call_simauto returned.
ListFramed(kf, r, log, pw, ObjType, fl) ==
    IF r.val.t # "cols"
    THEN [of |-> kf.of, okf |-> kf.okf, calls |-> log, outs |-> { Raise("TypeError") }]
    ELSE IF \A j \in 1..Len(r.val.cols) : r.val.cols[j] = NoneV
    THEN [of |-> kf.of, okf |-> kf.okf, calls |-> log, outs |-> { Return(NoneV) }]
    ELSE [okf |-> kf.okf] @@
         ReadFramed(FrameOf(r.val, KeyNames(kf.res.val)), log, kf.of, pw, ObjType, fl)

\* Lines 1000-1026, r being what _call_simauto returned or raised.
ListAnswered(kf, r, log, pw, ObjType, fl) ==
    IF r.o = "raise"
    THEN [of |-> kf.of, okf |-> kf.okf, calls |-> log, outs |-> { r }]
    ELSE ListFramed(kf, r, log, pw, ObjType, fl)

\* Lines 997-1026, kf being what get_key_fields_for_object_type did.
ListKeyed(kf, pw, ObjType, answer, fl) ==
    IF kf.res.o = "raise"
    THEN [of |-> kf.of, okf |-> kf.okf, calls |-> kf.calls, outs |-> { kf.res }]
    ELSE ListAnswered(kf, CallSimauto(pw, answer),
                      kf.calls \o Logged(pw, [f |-> "ListOfDevices", ot |-> Lower(ObjType)],
                                         CallSimauto(pw, answer)),
                      pw, ObjType, fl)

\* ListOfDevices
ListStep(of, okf, pw, ObjType, answer, fl) ==
    ListKeyed(GetKeyFieldsStep(of, okf, pw, ObjType, fl), pw, ObjType, answer, fl)

-----------------------------------------------------------------------------
(* The session: the state after __init__ and the public methods.           *)

NotCalled == [o |-> "not called"]

BoolV(b) == [t |-> "bool", b |-> b]

\* Lines 131-132: __init__ sets CreateIfNotFound and UIVisible, False by
\* default; CurrentDir is as SimAuto starts with it.
ConstructedProperties ==
    [CreateIfNotFound |-> BoolV(FALSE), UIVisible |-> BoolV(FALSE),
     CurrentDir |-> StrV(<<"c", "w", "d">>)]

\* The key-field tables of the catalogs in a cache.
KeysOf(of) == [ot \in DOMAIN of |-> DeriveKeyFields(of[ot]).val.rows]

\* __init__: the case is open, and the catalog and the key fields of every
\* type of object_field_lookup were fetched without an exception.
Constructed(FileName, of) ==
    /\ pwcom = "live"
    /\ pwb_file_path = StrV(convert_to_posix_path(FileName))
    /\ simauto.case = StrV(convert_to_posix_path(FileName))
    /\ object_fields = of
    /\ object_key_fields = KeysOf(of)
    /\ op = [name |-> "__init__"]
    /\ calls = << >>
    /\ result = Return(NoneV)
    /\ fetches = [ot \in CanonTypes |-> IF ot \in DOMAIN of THEN 1 ELSE 0]
    /\ pc = "idle"
    /\ cleaned_df = NoneV
    /\ caller_obj = NoneV
    /\ callers = << >>
    /\ df = NoneV
    /\ propagated = NotCalled
    /\ properties = ConstructedProperties

ConstructibleCaches ==
    UNION { { of \in [lookup -> UNION { { SortByName(c) : c \in RemoteCatalogs(ot) } : ot \in lookup }] :
                \A ot \in lookup :
                    /\ \E c \in RemoteCatalogs(ot) : of[ot] = SortByName(c)
                    /\ DeriveKeyFields(of[ot]).o = "return" } :
            lookup \in SUBSET CanonTypes }

\* The session variables while only _call_simauto is exercised.
SessionIdle ==
    /\ simauto = [case |-> StrV(PathB), gens |-> CaseData(PathB)]
    /\ Constructed(PathB, << >>)

Init ==
    /\ output = NoneV
    /\ returned = NotCalled
    /\ \E FileName \in FileNames, of \in ConstructibleCaches :
        /\ simauto = [case |-> StrV(convert_to_posix_path(FileName)),
                      gens |-> CaseData(convert_to_posix_path(FileName))]
        /\ Constructed(FileName, of)

\* The bookkeeping of a step: log holds the SimAuto calls of the step,
\* prior those the method made before it.
Finish(o, prior, log, res, of2) ==
    /\ op' = o
    /\ calls' = prior \o log
    /\ result' = res
    /\ fetches' = NextFetches(fetches, log, of2)
    /\ UNCHANGED <<classify_vars, propagated, properties, callers>>

\* A method that runs from call to return in one step, leaving the table
\* it was passed as obj.
DoneOn(o, log, res, of2, obj) ==
    /\ pc = "idle"
    /\ pc' = "idle"
    /\ cleaned_df' = NoneV
    /\ df' = NoneV
    /\ caller_obj' = obj
    /\ Finish(o, << >>, log, res, of2)

\* Such a method that takes no table.
Done(o, log, res, of2) == DoneOn(o, log, res, of2, NoneV)

GetFieldList(ObjectType) ==
    \E answer \in FieldListAnswersFor(object_fields, ObjectType) :
        \E st \in { GetFieldListStep(object_fields, pwcom, ObjectType, answer) } :
            /\ object_fields' = st.of
            /\ Done([name |-> "GetFieldList", ObjectType |-> ObjectType],
                    st.calls, st.res, st.of)
            /\ UNCHANGED <<pwcom, pwb_file_path, object_key_fields, simauto>>

\* get_key_fields_for_object_type, SimAuto answering GetFieldList from answers.
get_key_fields_answered(ObjectType, answers) ==
    \E answer \in answers :
        \E st \in { GetKeyFieldsStep(object_fields, object_key_fields, pwcom,
                                      ObjectType, answer) } :
            /\ object_fields' = st.of
            /\ object_key_fields' = st.okf
            /\ Done([name |-> "get_key_fields_for_object_type",
                     ObjectType |-> ObjectType], st.calls, st.res, st.of)
            /\ UNCHANGED <<pwcom, pwb_file_path, simauto>>

get_key_fields_for_object_type(ObjectType) ==
    get_key_fields_answered(ObjectType, FieldListAnswersFor(object_fields, ObjectType))

\* What SimAuto does on OpenCase / OpenCaseType of a path.
OpenAnswers == { OkAnswer, ErrorAnswer, Thrown }
Opened(sa, path, answer) ==
    IF answer = OkAnswer THEN [case |-> StrV(path), gens |-> CaseData(path)] ELSE sa

OpenPath_Forgotten(FileName, tracked) ==
    IF FileName = NoneV THEN StrV(PathB) ELSE StrV(convert_to_posix_path(FileName.s))
\* Lines 1139-1142: the path OpenCase opens and keeps in pwb_file_path.
OpenPath(FileName, tracked) ==
    IF FileName = NoneV THEN tracked ELSE StrV(convert_to_posix_path(FileName.s))

TrackedPath_IfOpened(path, tracked, r) == IF r.o = "raise" THEN tracked ELSE path
\* Lines 1142 and 1168: self.pwb_file_path is assigned before SimAuto is
\* called, whatever r _call_simauto then returns or raises.
TrackedPath(path, tracked, r) == path

\* OpenCase(FileName), FileName being a path, or NoneV for the default,
\* called where pc is from; pc becomes failed if it raises.
OpenCaseAt(FileName, from, failed) ==
    /\ pc = from
    /\ cleaned_df' = NoneV
    /\ df' = NoneV
    /\ caller_obj' = NoneV
    /\ IF FileName = NoneV /\ pwb_file_path = NoneV
       THEN /\ pc' = failed
            /\ Finish([name |-> "OpenCase", FileName |-> FileName], << >>, << >>,
                      Raise("TypeError"), object_fields)
            /\ UNCHANGED <<pwcom, pwb_file_path, object_fields, object_key_fields,
                           simauto>>
       ELSE \E answer \in OpenAnswers :
               \E path \in { OpenPath(FileName, pwb_file_path) } :
                   /\ pwb_file_path' = TrackedPath(path, pwb_file_path,
                                                   CallSimauto(pwcom, answer))
                   /\ simauto' = IF pwcom = "none" THEN simauto
                                 ELSE Opened(simauto, path.s, answer)
                   /\ pc' = IF CallSimauto(pwcom, answer).o = "raise"
                            THEN failed ELSE "idle"
                   /\ Finish([name |-> "OpenCase", FileName |-> FileName], << >>,
                             Logged(pwcom, [f |-> "OpenCase", path |-> path.s],
                                    CallSimauto(pwcom, answer)),
                             CallSimauto(pwcom, answer), object_fields)
                   /\ UNCHANGED <<pwcom, object_fields, object_key_fields>>

\* OpenCase called on the session.
OpenCase(FileName) ==
    /\ pc = "idle"
    /\ OpenCaseAt(FileName, "idle", "idle")

OpenCaseType(FileName) ==
    \E answer \in OpenAnswers :
        LET path == convert_to_posix_path(FileName)
        IN  /\ pwb_file_path' = TrackedPath(StrV(path), pwb_file_path,
                                            CallSimauto(pwcom, answer))
            /\ simauto' = IF pwcom = "none" THEN simauto
                          ELSE Opened(simauto, path, answer)
            /\ Done([name |-> "OpenCaseType", FileName |-> StrV(FileName)],
                    Logged(pwcom, [f |-> "OpenCaseType", path |-> path],
                           CallSimauto(pwcom, answer)),
                    CallSimauto(pwcom, answer), object_fields)
            /\ UNCHANGED <<pwcom, object_fields, object_key_fields>>

CloseCase ==
    \E answer \in OpenAnswers :
        /\ simauto' = IF pwcom # "none" /\ answer = OkAnswer
                      THEN [case |-> NoneV, gens |-> { }] ELSE simauto
        /\ Done([name |-> "CloseCase"],
                Logged(pwcom, [f |-> "CloseCase"], CallSimauto(pwcom, answer)),
                CallSimauto(pwcom, answer), object_fields)
        /\ UNCHANGED <<pwcom, pwb_file_path, object_fields, object_key_fields>>

\* SaveCase(FileName): the file written is outside the model.
SaveCase(FileName) ==
    IF FileName = NoneV /\ pwb_file_path = NoneV
    THEN /\ Done([name |-> "SaveCase", FileName |-> FileName], << >>,
                 Raise("TypeError"), object_fields)
         /\ UNCHANGED <<pwcom, pwb_file_path, object_fields, object_key_fields, simauto>>
    ELSE \E answer \in OpenAnswers :
            LET f == IF FileName = NoneV THEN convert_to_windows_path(pwb_file_path.s)
                     ELSE convert_to_windows_path(FileName.s)
            IN  /\ Done([name |-> "SaveCase", FileName |-> FileName],
                        Logged(pwcom, [f |-> "SaveCase", path |-> f],
                               CallSimauto(pwcom, answer)),
                        CallSimauto(pwcom, answer), object_fields)
                /\ UNCHANGED <<pwcom, pwb_file_path, object_fields,
                               object_key_fields, simauto>>

\* exit(): CloseCase, then the COM object is dropped.
exit ==
    \E answer \in OpenAnswers :
        LET r == CallSimauto(pwcom, answer)
        IN  /\ simauto' = IF pwcom # "none" /\ answer = OkAnswer
                          THEN [case |-> NoneV, gens |-> { }] ELSE simauto
            /\ pwcom' = IF r.o = "raise" THEN pwcom ELSE "none"
            /\ Done([name |-> "exit"], Logged(pwcom, [f |-> "CloseCase"], r), r,
                    object_fields)
            /\ UNCHANGED <<pwb_file_path, object_fields, object_key_fields>>

GetParametersMultipleElement(ObjectType, ParamList) ==
    \E answer \in ReadAnswers(simauto, Lower(ObjectType), ParamList),
       fl \in FieldListAnswersFor(object_fields, ObjectType) :
        \E st \in { ReadStep(object_fields, pwcom, ObjectType, ParamList, answer, fl) } :
            \E out \in st.outs :
                /\ object_fields' = st.of
                /\ Done([name |-> "GetParametersMultipleElement",
                         ObjectType |-> ObjectType, ParamList |-> ParamList],
                        st.calls, out, st.of)
                /\ UNCHANGED <<pwcom, pwb_file_path, object_key_fields, simauto>>

ListOfDevices(ObjType) ==
    \E answer \in ListAnswers(simauto, Lower(ObjType)),
       fl \in FieldListAnswersFor(object_fields, ObjType) :
        \E st \in { ListStep(object_fields, object_key_fields, pwcom, ObjType,
                              answer, fl) } :
            \E out \in st.outs :
                /\ object_fields' = st.of
                /\ object_key_fields' = st.okf
                /\ Done([name |-> "ListOfDevices", ObjType |-> ObjType],
                        st.calls, out, st.of)
                /\ UNCHANGED <<pwcom, pwb_file_path, simauto>>

clean_df_or_series(obj, ObjectType) ==
    \E fl \in FieldListAnswersFor(object_fields, ObjectType) :
        \E st \in { CleanStep(object_fields, pwcom, obj, ObjectType, fl) } :
            \E out \in st.outs :
                /\ object_fields' = st.of
                /\ DoneOn([name |-> "clean_df_or_series", ObjectType |-> ObjectType,
                           obj |-> obj],
                          st.calls, out, st.of, ObjAfterClean(obj, out))
                /\ UNCHANGED <<pwcom, pwb_file_path, object_key_fields, simauto>>

change_parameters_multiple_element_df(ObjectType, command_df) ==
    \E fl \in FieldListAnswersFor(object_fields, ObjectType) :
        \E st \in WriteSteps(object_fields, pwcom, simauto, ObjectType, command_df, fl) :
            /\ object_fields' = st.of
            /\ simauto' = st.sa
            /\ DoneOn([name |-> "change_parameters_multiple_element_df",
                       ObjectType |-> ObjectType, columns |-> command_df.tab.columns,
                       command_df |-> command_df],
                      st.calls,
                      IF st.res.o = "raise" THEN st.res ELSE Return(NoneV), st.of,
                      ObjAfterClean(command_df, st.cleaned))
            /\ UNCHANGED <<pwcom, pwb_file_path, object_key_fields>>

Running == [o |-> "running"]

\* change_and_confirm_params_multiple_element up to the return of
\* _change_parameters_multiple_element_df (lines 182-183).
change_and_confirm_params_multiple_element(ObjectType, command_df) ==
    /\ pc = "idle"
    /\ \E fl \in FieldListAnswersFor(object_fields, ObjectType) :
        \E st \in WriteSteps(object_fields, pwcom, simauto, ObjectType, command_df, fl) :
            /\ object_fields' = st.of
            /\ simauto' = st.sa
            /\ pc' = IF st.res.o = "raise" THEN "idle" ELSE "reread"
            /\ cleaned_df' = IF st.res.o = "raise" THEN NoneV ELSE st.res.val
            /\ df' = NoneV
            /\ caller_obj' = ObjAfterClean(command_df, st.cleaned)
            /\ Finish([name |-> "change_and_confirm_params_multiple_element",
                       ObjectType |-> ObjectType, columns |-> command_df.tab.columns,
                       command_df |-> command_df],
                      << >>, st.calls,
                      IF st.res.o = "raise" THEN st.res ELSE Running, st.of)
            /\ UNCHANGED <<pwcom, pwb_file_path, object_key_fields>>

\* The rest of it (lines 186-203): the read back and the comparison.
confirm_reread ==
    /\ pc = "reread"
    /\ \E answer \in ReadAnswers(simauto, Lower(op.ObjectType), cleaned_df.tab.columns),
          fl \in FieldListAnswersFor(object_fields, op.ObjectType) :
        \E rd \in { ReadStep(object_fields, pwcom, op.ObjectType,
                             cleaned_df.tab.columns, answer, fl) } :
            \E out \in rd.outs :
                /\ pc' = "idle"
                /\ UNCHANGED <<cleaned_df, caller_obj, pwcom, pwb_file_path, simauto>>
                /\ IF out.o = "raise"
                   THEN /\ df' = NoneV
                        /\ object_fields' = rd.of
                        /\ UNCHANGED object_key_fields
                        /\ Finish(op, calls, rd.calls, out, rd.of)
                   ELSE \E eq \in { EquivStep(rd.of, object_key_fields, pwcom,
                                              cleaned_df.tab, out.val,
                                              op.ObjectType, fl) } :
                        /\ df' = out.val
                        /\ object_fields' = eq.of
                        /\ object_key_fields' = eq.okf
                        /\ Finish(op, calls, rd.calls \o eq.calls, eq.res, eq.of)

FileNameArgs == { StrV(p) : p \in FileNames } \cup { NoneV }

\* The cells a caller puts in a column of a command table: numbers, and
\* strings as SimAuto pads them.
CellsOf(field) ==
    CASE field = "BusNum" -> { IntV(1), StrV(<<" ", "2">>) }
      [] field = "GenID" -> { StrV(<<"1", " ">>) }
      [] field = "GenMW" -> { IntV(7), IntV(100000), StrV(<<"1", "0", "0", "0", "0", "1">>) }
      [] field = "GenStatus" -> { StrV(Open), StrV(Closed \o <<" ">>) }
      [] OTHER -> { IntV(7) }

RowsFor(cols) ==
    { r \in [1..Len(cols) -> UNION { CellsOf(cols[j]) : j \in 1..Len(cols) }] :
        \A j \in 1..Len(cols) : r[j] \in CellsOf(cols[j]) }

TablesFor(cols, rows) ==
    UNION { { TableV(Table(cols, [i \in 1..n |-> i - 1], d)) :
                d \in [1..n -> RowsFor(cols)] } : n \in 1..rows }

ColumnLists ==
    { <<"BusNum", "GenID", "GenMW">>, <<"GenStatus", "GenID", "BusNum">>,
      <<"BusNum", "GenID", "GenMW", "GenStatus">>,
      <<"BusNum", "GenID">>, <<"BusNum", "GenMW">>, <<"BusNum", "GenID", "Bogus">> }

\* The command tables of Spec: one row each, the last with a column of no
\* catalog.
SmallCommands ==
    { TableV(Table(<<"BusNum", "GenID", "GenMW">>, <<0>>,
                   << <<IntV(1), StrV(<<"1", " ">>), IntV(100000)>> >>)),
      TableV(Table(<<"GenStatus", "GenID", "BusNum">>, <<0>>,
                   << <<StrV(Open), StrV(<<"1">>), StrV(<<" ", "2">>)>> >>)),
      TableV(Table(<<"BusNum", "GenID", "Bogus">>, <<0>>,
                   << <<IntV(1), StrV(<<"1">>), IntV(7)>> >>)) }

\* The type names the data methods are called with.
DataTypeNames == { <<"G", "e", "n">>, BusType }

ParamLists ==
    { <<"BusNum", "GenID", "GenMW">>, <<"GenStatus">>, <<"GenMW", "Bogus">> }

CleanInputs ==
    { NoneV,
      TableV(Table(<<"GenStatus", "GenMW">>, <<5, 3>>,
                   << <<StrV(<<" ", "O", "p", "e", "n">>), StrV(<<" ", "7">>)>>,
                      <<IntV(1), NoneV>> >>)),
      TableV(Table(<<"GenMW", "BusNum">>, <<5, 3>>,
                   << <<IntV(7), IntV(2)>>, <<StrV(<<"x">>), IntV(1)>> >>)),
      TableV(Table(<<"BusNum", "GenID">>, <<5, 3>>,
                   << <<StrV(<<"2", " ">>), StrV(<<"1">>)>>,
                      <<IntV(1), StrV(<<"1">>)>> >>)) }

Next ==
    \/ \E t \in ObjectTypeNames : GetFieldList(t)
    \/ \E t \in ObjectTypeNames : get_key_fields_for_object_type(t)
    \/ \E f \in FileNameArgs : OpenCase(f)
    \/ \E f \in FileNames : OpenCaseType(f)
    \/ CloseCase
    \/ \E f \in FileNameArgs : SaveCase(f)
    \/ exit
    \/ \E t \in DataTypeNames, ParamList \in ParamLists :
            GetParametersMultipleElement(t, ParamList)
    \/ \E t \in DataTypeNames : ListOfDevices(t)
    \/ \E t \in DataTypeNames, obj \in CleanInputs : clean_df_or_series(obj, t)
    \/ \E t \in DataTypeNames, command_df \in SmallCommands :
            change_parameters_multiple_element_df(t, command_df)
    \/ \E t \in DataTypeNames, command_df \in SmallCommands :
            change_and_confirm_params_multiple_element(t, command_df)
    \/ confirm_reread

Spec == Init /\ [][Next]_vars

-----------------------------------------------------------------------------
(* SpecWrite: one verified write on a session whose generator catalog and  *)
(* key fields are cached, from every state the generators may be in.       *)

\* Most rows of a command table in SpecWrite.
MaxRows == 2

CommandTables == UNION { TablesFor(cols, MaxRows) : cols \in ColumnLists }

\* The states the generators of a case may have been written into.
GenStates(path) ==
    { gens \in SUBSET { Gen(b, mw, st) : b \in 1..2, mw \in {7, 100000},
                                         st \in {Open, Closed} } :
        /\ Cardinality(gens) = Cardinality(CaseData(path))
        /\ { e.BusNum : e \in gens } = { e.BusNum : e \in CaseData(path) } }

InitWrite ==
    /\ output = NoneV
    /\ returned = NotCalled
    /\ \E path \in { PathA, PathB } :
        /\ simauto \in [case : { StrV(path) }, gens : GenStates(path)]
        /\ Constructed(path, [ot \in { GenType } |->
                                SortByName(GenRows(M_First, M_SecondB))])

VerifiedWriteOnce(command_df) ==
    /\ op.name = "__init__"
    /\ change_and_confirm_params_multiple_element(<<"G", "e", "n">>, command_df)

NextWrite ==
    \/ \E command_df \in CommandTables : VerifiedWriteOnce(command_df)
    \/ confirm_reread

SpecWrite == InitWrite /\ [][NextWrite]_vars

-----------------------------------------------------------------------------
(* SpecKeyFields: get_key_fields_for_object_type on a session with empty   *)
(* caches, over catalogs with every combination of key-field markers.      *)

M_Zero == <<"*", "0", "*">>
M_Odd == <<"*", "1", "*", "x">>
Markers == { M_First, M_SecondB, M_Third, M_Zero, M_Odd, M_Required, M_Composite, M_None }

MarkedCatalogs ==
    { << Row(mw, "GenMW", "Real"), Row(id, "GenID", "String"),
         Row(bus, "BusNum", "Integer") >> : mw, id, bus \in Markers }

InitKeyFields ==
    /\ output = NoneV
    /\ returned = NotCalled
    /\ SessionIdle

KeyFieldsOfMarked(ObjectType) ==
    get_key_fields_answered(ObjectType,
        IF HasCatalog(object_fields, Lower(ObjectType)) THEN { Thrown }
        ELSE { TupleV(<<StrV(EmptyStr), RowsV(c)>>) : c \in MarkedCatalogs })

NextKeyFields == \E t \in { GenType, <<"G", "E", "N">> } : KeyFieldsOfMarked(t)

SpecKeyFields == InitKeyFields /\ [][NextKeyFields]_vars

-----------------------------------------------------------------------------
(* SpecClassify: _call_simauto alone, on every result shape.               *)

InitClassify ==
    /\ output \in RawOutputs
    /\ returned = NotCalled
    /\ SessionIdle

CallSimautoClassify ==
    /\ returned = NotCalled
    /\ returned' = Classify(output)
    /\ UNCHANGED output
    /\ UNCHANGED session_vars

NextClassify == CallSimautoClassify

SpecClassify == InitClassify /\ [][NextClassify]_vars

-----------------------------------------------------------------------------
(* SpecNumeric: identify_numeric_fields alone, on a session that fetched   *)
(* one catalog with GetFieldList, over each catalog and each list of       *)
(* requested names.                                                        *)

MaxFields == 2

\* identify_numeric_fields(ObjectType, fields)
identify_numeric_fields(ObjectType, fields) ==
    \E answer \in FieldListAnswersFor(object_fields, ObjectType) :
        \E fl \in { GetFieldListStep(object_fields, pwcom, ObjectType, answer) } :
            /\ object_fields' = fl.of
            /\ Done([name |-> "identify_numeric_fields", ObjectType |-> ObjectType,
                     fields |-> fields],
                    fl.calls,
                    IF fl.res.o = "raise" THEN fl.res
                    ELSE IdentifyNumeric(fl.res.val.rows, fields),
                    fl.of)
            /\ UNCHANGED <<pwcom, pwb_file_path, object_key_fields, simauto>>

\* The rows a catalog may hold, and the catalogs made of them.
CatalogRows ==
    << Row(M_None, "GenMW", "Real"), Row(M_SecondB, "GenID", "String"),
       Row(M_None, "BusName", "String"), Row(M_First, "BusNum", "Integer") >>

Catalogs ==
    { SelectSeq(CatalogRows, LAMBDA r : r.internal_field_name \in keep) :
        keep \in SUBSET { "BusName", "BusNum", "GenID", "GenMW" } }

\* The names a caller may ask for: some of no catalog, before, between and
\* after the names of the catalogs.
RequestNames == { "AAA", "BusNum", "GenID", "GenMVR", "GenMW", "Zzz" }

FieldLists == UNION { [1..n -> RequestNames] : n \in 0..MaxFields }

InitNumeric ==
    /\ output = NoneV
    /\ returned = NotCalled
    /\ simauto = [case |-> StrV(PathB), gens |-> CaseData(PathB)]
    /\ pwcom = "live"
    /\ pwb_file_path = StrV(PathB)
    /\ \E c \in Catalogs : object_fields = [ot \in {GenType} |-> SortByName(c)]
    /\ object_key_fields = << >>
    /\ op = [name |-> "__init__"]
    /\ calls = << >>
    /\ result = Return(NoneV)
    /\ fetches = [ot \in CanonTypes |-> IF ot = GenType THEN 1 ELSE 0]
    /\ pc = "idle"
    /\ cleaned_df = NoneV
    /\ caller_obj = NoneV
    /\ callers = << >>
    /\ df = NoneV
    /\ propagated = NotCalled
    /\ properties = ConstructedProperties

IdentifyOnce(fields) ==
    /\ op.name = "__init__"
    /\ identify_numeric_fields(GenType, fields)

NextNumeric == \E fields \in FieldLists : IdentifyOnce(fields)

SpecNumeric == InitNumeric /\ [][NextNumeric]_vars
-----------------------------------------------------------------------------
(* SpecClean: clean_df_or_series alone, on each table a caller may pass,   *)
(* and then again on what it returned.                                     *)

\* Most rows of a table in SpecClean.
MaxCleanRows == 2

\* The cells of a column before cleaning: numbers, padded strings, None,
\* and text that is no number.
CleanCells(field) ==
    CASE field = "BusNum" -> { IntV(1), IntV(2), StrV(<<" ", "1">>), NoneV }
      [] field = "GenID" -> { StrV(<<"1">>), StrV(<<" ", "2">>), IntV(1) }
      [] field = "GenMW" -> { IntV(7), StrV(<<"x">>), NoneV }

CleanRows(cols) ==
    { r \in [1..Len(cols) -> UNION { CleanCells(cols[j]) : j \in 1..Len(cols) }] :
        \A j \in 1..Len(cols) : r[j] \in CleanCells(cols[j]) }

CleanColumnLists ==
    { <<"BusNum", "GenID">>, <<"GenID", "BusNum">>, <<"GenMW", "GenID">> }

\* Tables whose index is not 0..n-1.
CleanTables ==
    UNION { { TableV(Table(cols, [i \in 1..n |-> 7 - 2 * i], d)) :
                d \in [1..n -> CleanRows(cols)] } :
            cols \in CleanColumnLists, n \in 0..MaxCleanRows }

InitClean ==
    /\ output = NoneV
    /\ returned = NotCalled
    /\ simauto = [case |-> StrV(PathB), gens |-> CaseData(PathB)]
    /\ Constructed(PathB, [ot \in { GenType } |->
                              SortByName(GenRows(M_First, M_SecondB))])

CleanFirst(obj) ==
    /\ op.name = "__init__"
    /\ clean_df_or_series(obj, GenType)

\* The caller passes the table it was returned.
CleanAgain ==
    /\ op.name = "clean_df_or_series"
    /\ result.o = "return"
    /\ clean_df_or_series(result.val, op.ObjectType)

NextClean ==
    \/ \E obj \in CleanTables : CleanFirst(obj)
    \/ CleanAgain

SpecClean == InitClean /\ [][NextClean]_vars
-----------------------------------------------------------------------------
(* SpecWith: the session as a context manager.  __enter__ returns the      *)
(* session as constructed; the body of the with block calls one method;    *)
(* then __exit__ runs, with the exception of the body if it raised one.    *)

TrueV == [t |-> "bool", b |-> TRUE]
\* An exception class, as __exit__ is passed it.
ExcV(e) == [t |-> "exc", name |-> e]

\* The with statement (Python's rule): what its caller gets when the body
\* ended with body and __exit__ with ex.  An exception of __exit__
\* replaces that of the body; a true return value suppresses it.
WithOutcome(body, ex) ==
    IF ex.o = "raise" THEN ex
    ELSE IF body.o = "raise" /\ ex.val # TrueV THEN body
    ELSE Return(NoneV)

\* __exit__ returns True when exit() returned.
ExitReturn(r) == IF r.o = "raise" THEN r ELSE Return(TrueV)

\* __exit__(exc_type, exc_val, exc_tb), called as the with block is left.
with_exit ==
    /\ pc = "idle"
    /\ op.name # "__exit__"
    /\ \E answer \in OpenAnswers :
        \E r \in { CallSimauto(pwcom, answer) } :
            /\ simauto' = IF pwcom # "none" /\ answer = OkAnswer
                          THEN [case |-> NoneV, gens |-> { }] ELSE simauto
            /\ pwcom' = IF r.o = "raise" THEN pwcom ELSE "none"
            /\ op' = [name |-> "__exit__",
                      exc_type |-> IF result.o = "raise" THEN ExcV(result.exc) ELSE NoneV]
            /\ calls' = Logged(pwcom, [f |-> "CloseCase"], r)
            /\ result' = ExitReturn(r)
            /\ propagated' = WithOutcome(result, ExitReturn(r))
            /\ UNCHANGED <<pwb_file_path, object_fields, object_key_fields, fetches,
                           pc, cleaned_df, df, classify_vars, properties,
                           caller_obj, callers>>

ReadInWith(ObjectType, ParamList) ==
    /\ op.name = "__init__"
    /\ GetParametersMultipleElement(ObjectType, ParamList)

WriteInWith(ObjectType, command_df) ==
    /\ op.name = "__init__"
    /\ change_parameters_multiple_element_df(ObjectType, command_df)

OpenInWith(FileName) ==
    /\ op.name = "__init__"
    /\ OpenCase(FileName)

NextWith ==
    \/ \E t \in DataTypeNames, ParamList \in ParamLists : ReadInWith(t, ParamList)
    \/ \E t \in DataTypeNames, command_df \in SmallCommands : WriteInWith(t, command_df)
    \/ \E f \in FileNameArgs : OpenInWith(f)
    \/ with_exit

SpecWith == Init /\ [][NextWith]_vars
-----------------------------------------------------------------------------
(* SpecOpen: the case path, from inside __init__, where pwb_file_path has  *)
(* been set to None and OpenCase(FileName) is about to be called, through  *)
(* the opens, closes and saves of the session __init__ returns.  A session *)
(* whose __init__ raised is not returned, and no method is called on it.   *)

InitOpen ==
    /\ output = NoneV
    /\ returned = NotCalled
    /\ pwcom = "live"
    /\ pwb_file_path = NoneV
    /\ simauto = [case |-> NoneV, gens |-> { }]
    /\ object_fields = << >>
    /\ object_key_fields = << >>
    /\ op = [name |-> "__init__"]
    /\ calls = << >>
    /\ result = Return(NoneV)
    /\ fetches = [ot \in CanonTypes |-> 0]
    /\ pc = "init"
    /\ cleaned_df = NoneV
    /\ caller_obj = NoneV
    /\ callers = << >>
    /\ df = NoneV
    /\ propagated = NotCalled
    /\ properties = ConstructedProperties

\* Line 135: self.OpenCase(FileName=FileName), with no type to look up.
init_open(FileName) ==
    /\ pc = "init"
    /\ OpenCaseAt(FileName, "init", "failed")

NextOpen ==
    \/ \E f \in FileNameArgs : init_open(f)
    \/ \E f \in FileNameArgs : OpenCase(f)
    \/ \E f \in FileNames : OpenCaseType(f)
    \/ CloseCase
    \/ \E f \in FileNameArgs : SaveCase(f)

SpecOpen == InitOpen /\ [][NextOpen]_vars
-----------------------------------------------------------------------------
(* SpecReadOne: one GetParametersSingleElement on a session whose          *)
(* generator catalog is cached, for each list of fields and of values.     *)

\* Most values a caller passes to GetParametersSingleElement.
MaxValues == 3

SeriesV(index, values) == [t |-> "series", index |-> index, values |-> values]

LengthsMatch_Unchecked(ParamList, Values) == TRUE
\* Lines 767-768: assert len(ParamList) == len(Values)
LengthsMatch(ParamList, Values) == Len(ParamList) = Len(Values)

\* The objects the key values among Values name.
ElementsNamed(sa, ot, ParamList, Values) ==
    { e \in (IF ot = GenType THEN sa.gens ELSE { }) :
        \A k \in RemoteKeys :
            \E j \in 1..Len(ParamList) :
                ParamList[j] = k /\ j <= Len(Values) /\ Values[j] = e[k] }

\* What GetParametersSingleElement may be answered: the values of the
\* object, or an error when there is none.
ReadOneAnswers(sa, ot, ParamList, Values) ==
    { TupleV(<<StrV(EmptyStr),
               ColsV([j \in 1..Len(ParamList) |->
                        ReadColumns(<<e>>, ParamList)[j].cells[1]])>>) :
        e \in ElementsNamed(sa, ot, ParamList, Values) }
    \cup { ErrorAnswer, Thrown }

\* pd.Series(output, index=ParamList), output being one value per field.
SeriesOf(val, ParamList) ==
    IF val.t = "cols" /\ Len(val.cols) = Len(ParamList)
    THEN Return(SeriesV(ParamList, val.cols))
    ELSE Raise("ValueError")

\* clean_df_or_series on a Series: its values coerced, nothing sorted.
CleanSeries(numeric, ser) ==
    IF numeric.o = "raise" THEN numeric
    ELSE IF HasBad(Coerce(<<ser.values>>, numeric.val)) THEN Raise("ValueError")
    ELSE Return(SeriesV(ser.index, Coerce(<<ser.values>>, numeric.val)[1]))

\* Lines 776-779, r being what _call_simauto returned or raised and fl what
\* GetFieldList then does in identify_numeric_fields.
ReadOneAnswered(r, log, of, ParamList, fl) ==
    IF r.o = "raise" THEN [of |-> of, calls |-> log, res |-> r]
    ELSE IF SeriesOf(r.val, ParamList).o = "raise"
    THEN [of |-> of, calls |-> log, res |-> SeriesOf(r.val, ParamList)]
    ELSE IF fl.res.o = "raise"
    THEN [of |-> fl.of, calls |-> log \o fl.calls, res |-> fl.res]
    ELSE [of |-> fl.of, calls |-> log \o fl.calls,
          res |-> CleanSeries(IdentifyNumeric(fl.res.val.rows, ParamList),
                              SeriesOf(r.val, ParamList).val)]

\* GetParametersSingleElement
ReadOneStep(of, pw, ObjectType, ParamList, Values, answer, fl) ==
    IF ~LengthsMatch(ParamList, Values)
    THEN [of |-> of, calls |-> << >>, res |-> Raise("AssertionError")]
    ELSE ReadOneAnswered(CallSimauto(pw, answer),
                         Logged(pw, [f |-> "GetParametersSingleElement",
                                     ot |-> Lower(ObjectType), ParamList |-> ParamList],
                                CallSimauto(pw, answer)),
                         of, ParamList,
                         GetFieldListStep(of, pw, ObjectType, fl))

GetParametersSingleElement(ObjectType, ParamList, Values) ==
    \E answer \in ReadOneAnswers(simauto, Lower(ObjectType), ParamList, Values),
       fl \in FieldListAnswersFor(object_fields, ObjectType) :
        \E st \in { ReadOneStep(object_fields, pwcom, ObjectType, ParamList, Values,
                                answer, fl) } :
            /\ object_fields' = st.of
            /\ Done([name |-> "GetParametersSingleElement", ObjectType |-> ObjectType,
                     ParamList |-> ParamList, Values |-> Values],
                    st.calls, st.res, st.of)
            /\ UNCHANGED <<pwcom, pwb_file_path, object_key_fields, simauto>>

SingleParamLists ==
    { <<"BusNum", "GenID", "GenMW">>, <<"GenID", "BusNum">>,
      <<"BusNum", "GenID", "Bogus">> }

SingleValues ==
    UNION { [1..n -> { IntV(1), IntV(2), StrV(<<"1">>), IntV(0) }] : n \in 0..MaxValues }

ReadOneOnce(ParamList, Values) ==
    /\ op.name = "__init__"
    /\ GetParametersSingleElement(<<"G", "e", "n">>, ParamList, Values)

NextReadOne ==
    \E ParamList \in SingleParamLists, Values \in SingleValues :
        ReadOneOnce(ParamList, Values)

SpecReadOne == InitWrite /\ [][NextReadOne]_vars
(***************************************************************************)
(* set_simauto_property (lines 489-533), checked under SpecProperty.      *)
(***************************************************************************)

\* Lines 71-72: SIMAUTO_PROPERTIES, the supported properties and the type
\* of each.
SIMAUTO_PROPERTIES ==
    [CreateIfNotFound |-> "bool", CurrentDir |-> "str", UIVisible |-> "bool"]

\* The directories os.path.isdir (line 521) finds.
ExistingDirs == { StrV(<<"c", "w", "d">>), StrV(<<"d", "i", "r">>) }

PropertyNames == { "CreateIfNotFound", "CurrentDir", "UIVisible", "Bogus" }

PropertyValues ==
    { BoolV(TRUE), BoolV(FALSE), IntV(1), StrV(<<"d", "i", "r">>),
      StrV(<<"n", "o">>) }

ValidProperty_NameOnly(property_name, property_value) ==
    property_name \in DOMAIN SIMAUTO_PROPERTIES

\* Lines 503-523: the name is supported, the value is an instance of the
\* property's type, and CurrentDir names an existing directory.
ValidProperty(property_name, property_value) ==
    /\ property_name \in DOMAIN SIMAUTO_PROPERTIES
    /\ property_value.t = SIMAUTO_PROPERTIES[property_name]
    /\ property_name = "CurrentDir" => property_value \in ExistingDirs

\* Lines 527-533: setattr on the COM object; a com_error becomes a
\* ValueError, and a session without COM object has no attribute to set.
SetAttrOutcomes(pw) ==
    IF pw = "none" THEN { Raise("AttributeError") }
    ELSE { Return(NoneV), Raise("ValueError") }

set_simauto_property(property_name, property_value) ==
    /\ pc = "idle"
    /\ \E r \in IF ValidProperty(property_name, property_value)
                THEN SetAttrOutcomes(pwcom) ELSE { Raise("ValueError") } :
        /\ properties' =
               IF ValidProperty(property_name, property_value) /\ r.o = "return"
               THEN [properties EXCEPT ![property_name] = property_value]
               ELSE properties
        /\ op' = [name |-> "set_simauto_property",
                  property_name |-> property_name,
                  property_value |-> property_value]
        /\ calls' = << >>
        /\ result' = r
    /\ cleaned_df' = NoneV
    /\ df' = NoneV
    /\ caller_obj' = NoneV
    /\ UNCHANGED <<pwcom, pwb_file_path, object_fields, object_key_fields,
                   simauto, fetches, pc, propagated, classify_vars, callers>>

SetPropertyOnce ==
    \E property_name \in PropertyNames : \E property_value \in PropertyValues :
        set_simauto_property(property_name, property_value)

NextProperty ==
    \/ SetPropertyOnce
    \/ exit

SpecProperty == InitWrite /\ [][NextProperty]_vars
(***************************************************************************)
(* SpecRace: two threads share one session and each calls                  *)
(* change_and_confirm_params_multiple_element on generators.  The class     *)
(* holds no lock, so the threads interleave between the SimAuto calls: the  *)
(* write (lines 182-183) and the read back with the comparison (lines       *)
(* 186-203) of one call are two steps.                                      *)
(***************************************************************************)

Callers == 1..2

GenTypeName == <<"G", "e", "n">>

RaceCommands ==
    { TableV(Table(<<"BusNum", "GenID", "GenMW">>, <<0>>,
                   << <<IntV(1), StrV(<<"1">>), IntV(7)>> >>)),
      TableV(Table(<<"BusNum", "GenID", "GenMW">>, <<0>>,
                   << <<IntV(1), StrV(<<"1">>), IntV(100000)>> >>)),
      TableV(Table(<<"GenStatus", "GenID", "BusNum">>, <<0>>,
                   << <<StrV(Closed), StrV(<<"1">>), IntV(1)>> >>)) }

\* A thread about to call the method with command_df.
Called(command_df) ==
    [pc |-> "called", command_df |-> command_df, cleaned_df |-> NoneV,
     written |-> NoneV, result |-> NotCalled, alone |-> { }]

InitRace ==
    /\ output = NoneV
    /\ returned = NotCalled
    /\ pwcom = "live"
    /\ pwb_file_path = StrV(PathB)
    /\ simauto \in [case : { StrV(PathB) }, gens : GenStates(PathB)]
    /\ object_fields = [ot \in { GenType } |-> SortByName(GenRows(M_First, M_SecondB))]
    /\ object_key_fields = KeysOf(object_fields)
    /\ op = [name |-> "__init__"]
    /\ calls = << >>
    /\ result = Return(NoneV)
    /\ fetches = [ot \in CanonTypes |-> IF ot = GenType THEN 1 ELSE 0]
    /\ pc = "idle"
    /\ cleaned_df = NoneV
    /\ df = NoneV
    /\ propagated = NotCalled
    /\ properties = ConstructedProperties
    /\ caller_obj = NoneV
    /\ callers \in [Callers -> { Called(command_df) : command_df \in RaceCommands }]

\* Lines 182-183 in thread c: the table is cleaned and written.
race_write(c) ==
    /\ callers[c].pc = "called"
    /\ \E fl \in FieldListAnswersFor(object_fields, GenTypeName) :
        \E st \in WriteSteps(object_fields, pwcom, simauto, GenTypeName,
                             callers[c].command_df, fl) :
            /\ object_fields' = st.of
            /\ simauto' = st.sa
            /\ callers' = [callers EXCEPT ![c] =
                   [pc |-> IF st.res.o = "raise" THEN "done" ELSE "reread",
                    command_df |-> ObjAfterClean(callers[c].command_df, st.cleaned),
                    cleaned_df |-> IF st.res.o = "raise" THEN NoneV ELSE st.res.val,
                    written |-> st.sa,
                    result |-> IF st.res.o = "raise" THEN st.res ELSE Running,
                    alone |-> { }]]
    /\ UNCHANGED <<pwcom, pwb_file_path, object_key_fields, op, calls, result,
                   fetches, pc, cleaned_df, df, propagated, properties,
                   caller_obj, classify_vars>>

\* The answer to the read back that SimAuto in state sa gives in place of
\* answer: the same failure, or the data of sa.
AnswerOn(sa, ParamList, answer) ==
    IF answer \in { ErrorAnswer, Thrown } THEN { answer }
    ELSE ReadAnswers(sa, GenType, ParamList) \ { ErrorAnswer, Thrown }

\* Lines 186-203 after the read back rd: the outcomes of the method.
RereadOf(rd, okf, pw, cleaned, fl) ==
    { IF out.o = "raise" THEN out
      ELSE EquivStep(rd.of, okf, pw, cleaned.tab, out.val, GenTypeName, fl).res :
        out \in rd.outs }

\* Lines 186-203 on cleaned, SimAuto answering the read with answer.
RereadOutcomes(of, okf, pw, cleaned, answer, fl) ==
    RereadOf(ReadStep(of, pw, GenTypeName, cleaned.tab.columns, answer, fl),
             okf, pw, cleaned, fl)

\* Lines 186-203 in thread c.  The catalog and the key fields of the type
\* are cached since construction, so that the caches stay as they are.
\* alone records the outcomes the same read back has on the state SimAuto
\* was in when the thread's own write returned, the state it reads when
\* the two calls run one after the other.
race_reread(c) ==
    /\ callers[c].pc = "reread"
    /\ \E answer \in ReadAnswers(simauto, GenType, callers[c].cleaned_df.tab.columns),
          fl \in FieldListAnswersFor(object_fields, GenTypeName) :
        \E res \in RereadOutcomes(object_fields, object_key_fields, pwcom,
                                  callers[c].cleaned_df, answer, fl) :
            callers' = [callers EXCEPT ![c] =
                [pc |-> "done",
                 command_df |-> callers[c].command_df,
                 cleaned_df |-> callers[c].cleaned_df,
                 written |-> callers[c].written,
                 result |-> res,
                 alone |-> UNION { RereadOutcomes(object_fields, object_key_fields,
                                                  pwcom, callers[c].cleaned_df, a, fl) :
                                   a \in AnswerOn(callers[c].written,
                                                  callers[c].cleaned_df.tab.columns,
                                                  answer) }]]
    /\ UNCHANGED <<pwcom, pwb_file_path, object_fields, object_key_fields, simauto,
                   op, calls, result, fetches, pc, cleaned_df, df, propagated,
                   properties, caller_obj, classify_vars>>

NextRace ==
    \/ \E c \in Callers : race_write(c)
    \/ \E c \in Callers : race_reread(c)

SpecRace == InitRace /\ [][NextRace]_vars
-----------------------------------------------------------------------------
(* Properties of _call_simauto, checked under SpecClassify.                *)

Classified == returned # NotCalled
RaisedPowerWorldError == returned.o = "raise" /\ returned.exc = "PowerWorldError"
FirstIsString(out) == out.t = "tuple" /\ Len(out.xs) > 0 /\ out.xs[1].t = "str"

\* The result shapes the SimAuto functions are documented to produce.
DocumentedShape(out) ==
    \/ out = TupleV(<<StrV(EmptyStr)>>)
    \/ FirstIsString(out) /\ Len(out.xs) >= 2
    \/ out.t = "int" /\ (out.n = -1 \/ out.n >= 0)
    \/ FirstIsString(out) /\ Contains(NoDataStr, out.xs[1].s)

\* C4: every documented result shape ends in exactly one of: a payload is
\* returned (at least one element of the result other than element 0, or
\* the bare integer), None is returned, or PowerWorldError is raised.
C4_ClassifierTotal ==
    (Classified /\ DocumentedShape(output)) =>
        \/ RaisedPowerWorldError
        \/ returned = Return(NoneV)
        \/ /\ returned.o = "return"
           /\ returned.val # NoneV
           /\ returned.val # TupleV(<< >>)

\* C5: for a tuple result PowerWorldError is raised if and only if the
\* first element is a non-empty string without the substring "No data",
\* and then the message is that first element.
C5_RaisesIffErrorString ==
    (Classified /\ output.t = "tuple") =>
        /\ RaisedPowerWorldError <=>
              /\ FirstIsString(output)
              /\ output.xs[1].s # EmptyStr
              /\ ~Contains(NoDataStr, output.xs[1].s)
        /\ RaisedPowerWorldError => returned.msg = output.xs[1].s

C5_Witness ==
    /\ RaisedPowerWorldError
    /\ output.t = "tuple"
    /\ Len(output.xs) = 2
    /\ returned.msg = <<"n", "o", " ", "d", "a", "t", "a">>

NonErrorTuple(out) ==
    /\ FirstIsString(out)
    /\ out.xs[1].s = EmptyStr \/ Contains(NoDataStr, out.xs[1].s)

\* C6: for a non-error tuple, ('',) gives None, length 2 gives element 1,
\* a longer tuple gives the tuple of elements 1..end, and element 0 is
\* never part of what is returned.
C6_PayloadByShape ==
    (Classified /\ NonErrorTuple(output)) =>
        /\ returned.o = "return"
        /\ output.xs = <<StrV(EmptyStr)>> => returned.val = NoneV
        /\ Len(output.xs) = 2 => returned.val = output.xs[2]
        /\ Len(output.xs) > 2 =>
              /\ returned.val.t = "tuple"
              /\ Len(returned.val.xs) = Len(output.xs) - 1
              /\ \A i \in 1..Len(returned.val.xs) :
                    returned.val.xs[i] = output.xs[i + 1]
        /\ returned.val # output.xs[1]
        /\ returned.val.t = "tuple" =>
              \A i \in 1..Len(returned.val.xs) : returned.val.xs[i] # output.xs[1]

C6_Witness ==
    /\ Classified
    /\ NonErrorTuple(output)
    /\ Len(output.xs) = 3
    /\ output.xs[1] = StrV(<<"E", ":">> \o NoDataStr)
    /\ returned = Return(TupleV(<<DataV(2), DataV(1)>>))

\* C7: a bare integer -1 raises PowerWorldError, every other bare integer
\* is returned unchanged.
C7_IntegerSentinel ==
    (Classified /\ output.t = "int") =>
        IF output.n = -1 THEN RaisedPowerWorldError ELSE returned = Return(output)

C7_Witness ==
    /\ output = IntV(-2)
    /\ returned = Return(IntV(-2))

-----------------------------------------------------------------------------
(* Properties of the verified write, checked under SpecWrite.              *)

VerifiedWrite == op.name = "change_and_confirm_params_multiple_element"
Confirmed == VerifiedWrite /\ pc = "idle" /\ result = Return(NoneV)
Rejected == VerifiedWrite /\ pc = "idle" /\ result = Raise("CommandNotRespectedError")

\* The write was acknowledged and the read back gave a table.
ReadBack == VerifiedWrite /\ pc = "idle" /\ cleaned_df # NoneV /\ df # NoneV

KeyColumns == { r.internal_field_name : r \in Range(object_key_fields[GenType]) }
WrittenColumns == Range(cleaned_df.tab.columns) \ KeyColumns
Cell(tab, i, c) == tab.data[i][ColumnOf(tab, c)]

\* Row i of the command table and row j of the read back name one element.
SameElement(i, j) ==
    \A k \in KeyColumns : Cell(cleaned_df.tab, i, k) = Cell(df.tab, j, k)

IsNumericField(c) ==
    \E r \in Range(object_fields[GenType]) :
        r.internal_field_name = c /\ r.field_data_type \in {"Integer", "Real"}

Differs(i, j, c) == Cell(cleaned_df.tab, i, c) # Cell(df.tab, j, c)

\* The requested and the read value are further apart than numpy's default
\* tolerance (1e-8 + 1e-5 * |read|) for a number, or differ at all for text.
DiffersBeyondTolerance(i, j, c) ==
    LET a == Cell(cleaned_df.tab, i, c)
        b == Cell(df.tab, j, c)
    IN  IF IsNumericField(c)
        THEN a.t # "int" \/ b.t # "int" \/ Abs(a.n - b.n) > Abs(b.n) \div 100000
        ELSE a # b

\* C1 as stated: an acknowledged write whose read back shows, for a written
\* element, any written non-key value different from the requested one
\* raises CommandNotRespectedError.
C1_RaisesOnAnyDifference ==
    (ReadBack /\ \E i \in 1..Len(cleaned_df.tab.data), j \in 1..Len(df.tab.data) :
                    SameElement(i, j) /\ \E c \in WrittenColumns : Differs(i, j, c))
        => Rejected

\* C1 amended: an acknowledged write whose read back shows, for a written
\* element, a written non-key value that differs from the requested one by
\* more than the numeric tolerance (or at all, for text) raises
\* CommandNotRespectedError.
C1_RaisesBeyondTolerance ==
    (ReadBack /\ \E i \in 1..Len(cleaned_df.tab.data), j \in 1..Len(df.tab.data) :
                    SameElement(i, j)
                    /\ \E c \in WrittenColumns : DiffersBeyondTolerance(i, j, c))
        => Rejected

\* A refused write of GenMW of the generator at bus 1 was rejected.
C1_Witness ==
    /\ ReadBack
    /\ Rejected
    /\ Len(cleaned_df.tab.data) = 1
    /\ "GenMW" \in WrittenColumns
    /\ \E j \in 1..Len(df.tab.data) :
            SameElement(1, j) /\ DiffersBeyondTolerance(1, j, "GenMW")

\* C2: the verified write returns normally only if every row of the
\* cleaned command table has an element with the same key values in the
\* read back whose written columns all match the requested values.
C2_ConfirmedOnlyIfAllPresent ==
    Confirmed =>
        /\ df # NoneV
        /\ \A i \in 1..Len(cleaned_df.tab.data) :
                \E j \in 1..Len(df.tab.data) :
                    /\ SameElement(i, j)
                    /\ \A c \in WrittenColumns : ~DiffersBeyondTolerance(i, j, c)

DataCalls ==
    SelectSeq(calls, LAMBDA e : e.f \in {"ChangeParametersMultipleElement",
                                         "GetParametersMultipleElement"})

CallsOrdered ==
    VerifiedWrite =>
        /\ Len(DataCalls) <= 2
        /\ Len(DataCalls) >= 1 => DataCalls[1].f = "ChangeParametersMultipleElement"
        /\ Len(DataCalls) = 2 =>
                /\ DataCalls[2].f = "GetParametersMultipleElement"
                /\ ~DataCalls[1].raised
                /\ DataCalls[2].ParamList = DataCalls[1].ParamList
                /\ pc = "idle"
        /\ pc = "reread" => Len(DataCalls) = 1
        /\ (Confirmed \/ Rejected) => Len(DataCalls) = 2

\* C3: in one verified write ChangeParametersMultipleElement is called
\* once, GetParametersMultipleElement once, after the write returned
\* without an exception and for the same columns, and nothing is written
\* after the write: the read back and the rejection leave SimAuto's state
\* as the write left it.
C3_RemoteCallsOrdered ==
    /\ []CallsOrdered
    /\ [][pc = "reread" => simauto' = simauto]_vars

\* A rejected write one row of which SimAuto did apply.
C3_Witness ==
    /\ Rejected
    /\ Len(DataCalls) = 2
    /\ "GenMW" \in WrittenColumns
    /\ \E i \in 1..Len(cleaned_df.tab.data), j \in 1..Len(df.tab.data) :
            /\ SameElement(i, j)
            /\ Cell(cleaned_df.tab, i, "GenMW") = Cell(df.tab, j, "GenMW")
            /\ \E e \in simauto.gens :
                    e.GenMW = Cell(df.tab, j, "GenMW") /\ e.BusNum = Cell(df.tab, j, "BusNum")

-----------------------------------------------------------------------------
(* Properties of the schema cache, checked under Spec and SpecKeyFields.   *)

CatalogLookup == op.name = "GetFieldList"

\* C8: SimAuto's GetFieldList is called at most once per lower-cased type
\* from the first call that gave a catalog on, and a GetFieldList for a
\* cached type, in any letter case, returns the cached catalog and calls
\* nothing.
C8_FetchedOncePerType ==
    /\ [](\A ot \in CanonTypes : fetches[ot] <= 1)
    /\ [][(CatalogLookup' /\ Lower(op'.ObjectType) \in DOMAIN object_fields) =>
            /\ calls' = << >>
            /\ result' = Return(RowsV(object_fields[Lower(op'.ObjectType)]))]_vars

C8_Witness ==
    /\ CatalogLookup
    /\ op.ObjectType = <<"G", "E", "N">>
    /\ calls = << >>
    /\ GenType \in DOMAIN object_fields
    /\ result = Return(RowsV(object_fields[GenType]))
    /\ fetches[GenType] = 1
    /\ simauto.case = NoneV

\* C9: a step of any method leaves every cached catalog and every cached
\* key-field table in the cache, unchanged.
C9_CacheEntriesKept ==
    [][/\ \A ot \in DOMAIN object_fields :
            ot \in DOMAIN object_fields' /\ object_fields'[ot] = object_fields[ot]
       /\ \A ot \in DOMAIN object_key_fields :
            ot \in DOMAIN object_key_fields'
            /\ object_key_fields'[ot] = object_key_fields[ot]]_vars

\* Both types are cached and another case has been opened since.
C9_Witness ==
    /\ DOMAIN object_fields = CanonTypes
    /\ DOMAIN object_key_fields = CanonTypes
    /\ op.name = "OpenCaseType"
    /\ result = Return(NoneV)
    /\ fetches[BusType] = 1

\* The 1-based key position a marker states; 0 for a marker that states none.
MarkerPosition(m) ==
    CASE m = M_First -> 1
      [] m = M_SecondB -> 2
      [] m = M_Third -> 3
      [] OTHER -> 0

MarkerOf(catalog, name) ==
    (CHOOSE r \in Range(catalog) : r.internal_field_name = name).key_field

\* The key-field tables in the cache, and the one just returned.
KeyTables ==
    { <<ot, object_key_fields[ot]>> : ot \in DOMAIN object_key_fields }
        \cup IF op.name = "get_key_fields_for_object_type" /\ result.o = "return"
             THEN { <<Lower(op.ObjectType), result.val.rows>> } ELSE { }

\* C10: a key-field table that is returned or cached has the index 0..k-1
\* with k >= 1, row i carrying the field whose marker states position i;
\* no table is returned or cached for a catalog whose positions have a gap.
C10_KeyIndexDense ==
    \A kt \in KeyTables :
        /\ Len(kt[2]) >= 1
        /\ \A i \in 1..Len(kt[2]) :
            /\ kt[2][i].key_field_index = i - 1
            /\ MarkerPosition(MarkerOf(object_fields[kt[1]],
                                       kt[2][i].internal_field_name)) = i

C10_Witness ==
    /\ op.name = "get_key_fields_for_object_type"
    /\ result.o = "return"
    /\ Len(result.val.rows) = 2
    /\ result.val.rows[2].internal_field_name = "GenID"
    /\ MarkerOf(object_fields[GenType], "GenID") = M_SecondB
    /\ MarkerOf(object_fields[GenType], "GenMW") = M_Composite
    /\ object_key_fields[GenType] = result.val.rows


-----------------------------------------------------------------------------
(* Properties of identify_numeric_fields, checked under SpecNumeric.       *)

Identified == op.name = "identify_numeric_fields"

\* The names of the catalog the session holds for the type asked about.
CatalogOf(ot) == object_fields[Lower(ot)]
CatalogNames(ot) ==
    { CatalogOf(ot)[i].internal_field_name : i \in 1..Len(CatalogOf(ot)) }

AbsentNames == { n \in Range(op.fields) : n \notin CatalogNames(op.ObjectType) }

\* C11: identify_numeric_fields raises ValueError if and only if at least
\* one of the requested names is not in the catalog of the object type.
C11_RaisesIffAbsent ==
    Identified => ((result = Raise("ValueError")) <=> (AbsentNames # { }))

\* A present name and one that sorts between two catalog entries.
C11_Witness ==
    /\ Identified
    /\ op.fields = <<"BusNum", "GenMVR">>
    /\ CatalogNames(op.ObjectType) = { "BusNum", "GenID", "GenMW" }
    /\ result = Raise("ValueError")

\* The data type the catalog gives for a name it holds.
DataTypeOf(ot, n) ==
    (CHOOSE r \in Range(CatalogOf(ot)) : r.internal_field_name = n).field_data_type

\* C12: when every requested name is in the catalog, identify_numeric_fields
\* returns a mask as long as the request and in its order, whose i-th entry
\* is true exactly when the catalog gives the i-th name the data type
\* Integer or Real.
C12_MaskByDataType ==
    (Identified /\ AbsentNames = { }) =>
        /\ result.o = "return"
        /\ Len(result.val) = Len(op.fields)
        /\ \A i \in 1..Len(op.fields) :
            result.val[i] <=> (DataTypeOf(op.ObjectType, op.fields[i]) \in {"Integer", "Real"})

\* A Real field asked for before a text one, the reverse of their order in
\* the catalog.
C12_Witness ==
    /\ Identified
    /\ op.fields = <<"GenMW", "GenID">>
    /\ result = Return(<<TRUE, FALSE>>)

-----------------------------------------------------------------------------
(* Properties of clean_df_or_series, checked under SpecClean.              *)

CleanedTable == op.name = "clean_df_or_series" /\ result.o = "return"

\* A call of clean_df_or_series on the table the call before it returned.
CleansAgain == CleanedTable /\ op'.name = "clean_df_or_series" /\ op'.obj = result.val

\* C13: clean_df_or_series is idempotent: cleaning the table it returned
\* returns that table again, with the same values, row order and index.
C13_CleanIdempotent == [][CleansAgain => result' = result]_vars

\* The cleaned table and the one that was passed.
CleanOut == result.val.tab
CleanIn == op.obj.tab
HasBusNum == \E j \in 1..Len(CleanIn.columns) : CleanIn.columns[j] = "BusNum"
BusNumAt(i) == CleanOut.data[i][ColumnOf(CleanOut, "BusNum")]

\* Row i of the cleaned table is row k of the input, cleaned.
CleanedRowOf(i, k) ==
    \A j \in 1..Len(CleanIn.columns) :
        CleanOut.data[i][j] =
            IF DataTypeOf(op.ObjectType, CleanIn.columns[j]) \in {"Integer", "Real"}
            THEN ToNumeric(CleanIn.data[k][j])
            ELSE ToStripped(CleanIn.data[k][j])

\* C14: after clean_df_or_series on a table: if it has a column named
\* BusNum, the rows are in ascending order of its numeric value and the
\* index is 0..n-1; otherwise the rows are in the order, and under the
\* index, of the input.
C14_SortedByBusNum ==
    CleanedTable =>
        /\ Len(CleanOut.data) = Len(CleanIn.data)
        /\ IF HasBusNum
           THEN /\ CleanOut.index = [i \in 1..Len(CleanIn.data) |-> i - 1]
                /\ \A a, b \in 1..Len(CleanOut.data) :
                    (a < b /\ BusNumAt(a).t = "int" /\ BusNumAt(b).t = "int")
                        => BusNumAt(a).n <= BusNumAt(b).n
                /\ \E p \in Perms(Len(CleanIn.data)) :
                    \A i \in 1..Len(CleanIn.data) : CleanedRowOf(i, p[i])
           ELSE /\ CleanOut.index = CleanIn.index
                /\ \A i \in 1..Len(CleanIn.data) : CleanedRowOf(i, i)

\* Two rows passed in descending BusNum order under the index 5, 3.
C14_Witness ==
    /\ CleanedTable
    /\ CleanIn.columns = <<"GenID", "BusNum">>
    /\ CleanIn.index = <<5, 3>>
    /\ CleanIn.data = << <<StrV(<<"1">>), IntV(2)>>, <<StrV(<<" ", "2">>), StrV(<<" ", "1">>)>> >>
    /\ CleanOut.index = <<0, 1>>
    /\ CleanOut.data = << <<StrV(<<"2">>), IntV(1)>>, <<StrV(<<"1">>), IntV(2)>> >>

-----------------------------------------------------------------------------
(* Properties of the session, checked under Spec.                          *)

WriteMethods ==
    { "change_parameters_multiple_element_df",
      "change_and_confirm_params_multiple_element" }

\* The names of a catalog.
NamesOf(cat) == { cat[i].internal_field_name : i \in 1..Len(cat) }

\* A step that calls a bulk write with a command table that has a column of
\* a name the catalog of the object type does not hold.
WritesUnknownField ==
    /\ pc = "idle"
    /\ op'.name \in WriteMethods
    /\ Lower(op'.ObjectType) \in DOMAIN object_fields'
    /\ \E c \in Range(op'.columns) : c \notin NamesOf(object_fields'[Lower(op'.ObjectType)])

Invoked(log, f) == \E i \in 1..Len(log) : log[i].f = f

\* C15: a bulk write, verified or not, whose command table has a column that
\* is not in the catalog of the object type raises ValueError, never invokes
\* SimAuto's ChangeParametersMultipleElement and leaves SimAuto's state
\* unchanged.
C15_UnknownFieldNotWritten ==
    [][WritesUnknownField =>
          /\ result' = Raise("ValueError")
          /\ ~Invoked(calls', "ChangeParametersMultipleElement")
          /\ simauto' = simauto]_vars

\* The verified write called with the column Bogus on a case with
\* generators.
C15_Witness ==
    /\ op.name = "change_and_confirm_params_multiple_element"
    /\ "Bogus" \in Range(op.columns)
    /\ result = Raise("ValueError")
    /\ pc = "idle"
    /\ simauto.gens # { }

ReadMany == op.name = "GetParametersMultipleElement"

\* SimAuto was asked for the data of a type the case has no object of, and
\* answered (it threw nothing): it signalled that nothing was found.
NothingFound ==
    /\ ReadMany
    /\ Len(ObjectsOf(simauto, Lower(op.ObjectType))) = 0
    /\ Invoked(calls, "GetParametersMultipleElement")
    /\ result # Raise("COMError")

\* C16: GetParametersMultipleElement for a type with no object in the case
\* returns None, whichever way SimAuto signals that nothing was found.
C16_NoneWhenNothingFound == NothingFound => result = Return(NoneV)

\* A field was asked for that the catalog of the object type does not hold,
\* and SimAuto answered the request (it threw nothing).
ReadsUnknownField ==
    /\ ReadMany
    /\ Lower(op.ObjectType) \in DOMAIN object_fields
    /\ \E c \in Range(op.ParamList) : c \notin CatalogNames(op.ObjectType)
    /\ Invoked(calls, "GetParametersMultipleElement")
    /\ result # Raise("COMError")

\* C17: GetParametersMultipleElement raises ValueError whenever a requested
\* field is not in the catalog of the object type, whatever SimAuto answers.
C17_UnknownFieldValueError == ReadsUnknownField => result = Raise("ValueError")


-----------------------------------------------------------------------------
(* Properties of the session as a context manager, checked under SpecWith. *)

\* The with block was left by an exception of the method called in it.
BodyRaised == op.name = "__exit__" /\ op.exc_type # NoneV

\* C18: an error of a method reaches the caller as an exception, also when
\* the method is called inside a with block on the session.
C18_ErrorsReachCaller == BodyRaised => propagated.o = "raise"

RemoteErrors == { "COMError", "PowerWorldError" }

\* The invocations of SimAuto function f in the log of the method.
InvocationsOf(f) == { i \in 1..Len(calls) : calls[i].f = f }

\* C19: no SimAuto call is retried: when an invocation fails (SimAuto throws
\* or answers with an error) it is the last invocation of the method, which
\* has ended with that error, and the function it invoked was not invoked
\* again; and a write invokes ChangeParametersMultipleElement at most once.
C19_NoRetry ==
    /\ \A i \in 1..Len(calls) :
        calls[i].raised =>
            /\ i = Len(calls)
            /\ pc = "idle"
            /\ result.o = "raise"
            /\ result.exc \in RemoteErrors
            /\ InvocationsOf(calls[i].f) = { i }
    /\ Cardinality(InvocationsOf("ChangeParametersMultipleElement")) <= 1

\* A verified write that fetched the catalog and whose write SimAuto
\* answered with an error.
C19_Witness ==
    /\ op.name = "change_and_confirm_params_multiple_element"
    /\ Len(calls) = 2
    /\ calls[1].f = "GetFieldList"
    /\ calls[2].f = "ChangeParametersMultipleElement"
    /\ calls[2].raised
    /\ result.o = "raise"
    /\ result.exc = "PowerWorldError"

-----------------------------------------------------------------------------
(* Properties of the case path, checked under SpecOpen.                    *)

OpensWithPath == op'.name \in { "OpenCase", "OpenCaseType" } /\ op'.FileName # NoneV
OpensDefault == op'.name = "OpenCase" /\ op'.FileName = NoneV

\* C20: pwb_file_path is None until the first open; it changes only when
\* OpenCase or OpenCaseType is given a path, to that path, so CloseCase and
\* SaveCase leave it unchanged; OpenCase without FileName opens the path it
\* holds, and raises TypeError without invoking SimAuto when it holds none.
C20_DefaultCasePath ==
    /\ [](pc = "init" => pwb_file_path = NoneV)
    /\ [][IF OpensWithPath
          THEN pwb_file_path' = StrV(convert_to_posix_path(op'.FileName.s))
          ELSE pwb_file_path' = pwb_file_path]_vars
    /\ [][OpensDefault =>
            IF pwb_file_path = NoneV
            THEN result' = Raise("TypeError") /\ calls' = << >>
            ELSE /\ Len(calls') = 1
                 /\ calls'[1].f = "OpenCase"
                 /\ calls'[1].path = pwb_file_path.s]_vars

\* OpenCase without FileName has opened case a again.
C20_Witness ==
    /\ op = [name |-> "OpenCase", FileName |-> NoneV]
    /\ result = Return(NoneV)
    /\ pwb_file_path = StrV(PathA)
    /\ simauto.case = StrV(PathA)

\* A step that opens a case, by either method, and gets as far as SimAuto.
OpensCase ==
    /\ op'.name \in { "OpenCase", "OpenCaseType" }
    /\ ~(op'.FileName = NoneV /\ pwb_file_path = NoneV)

CaseIsOpen == simauto.case # NoneV

\* C21: opening a case on a session that has a case open invokes exactly
\* one SimAuto function, the open itself and no CloseCase, and the session
\* then tracks the one path the open was for.
C21_OpenReplacesCase ==
    [][(CaseIsOpen /\ OpensCase) =>
          /\ Len(calls') = 1
          /\ calls'[1].f = op'.name
          /\ pwb_file_path' = IF op'.FileName = NoneV THEN pwb_file_path
                              ELSE StrV(convert_to_posix_path(op'.FileName.s))]_vars

\* OpenCase of case a was refused while case b is open.
C21_Witness ==
    /\ op.name = "OpenCase"
    /\ op.FileName # NoneV
    /\ result.o = "raise"
    /\ result.exc = "PowerWorldError"
    /\ Len(calls) = 1
    /\ simauto.case = StrV(PathB)
    /\ pwb_file_path = StrV(PathA)

\* A step in which an open with a path fails in SimAuto.
OpenFails ==
    /\ OpensCase
    /\ op'.FileName # NoneV
    /\ result'.o = "raise"
    /\ result'.exc \in RemoteErrors

\* C28: when the SimAuto call of OpenCase or OpenCaseType fails, the session
\* already tracks the path that was to be opened, and SimAuto still has the
\* case open that it had.
C28_PathReplacedBeforeOpen ==
    [][OpenFails =>
          /\ pwb_file_path' = StrV(convert_to_posix_path(op'.FileName.s))
          /\ simauto' = simauto]_vars

\* OpenCaseType of case a threw while case b is open.
C28_Witness ==
    /\ op.name = "OpenCaseType"
    /\ result = Raise("COMError")
    /\ simauto.case = StrV(PathB)
    /\ pwb_file_path = StrV(PathA)

\* C22: exit() on a session that holds the COM object invokes SimAuto's
\* CloseCase and leaves the session without the COM object, also when
\* CloseCase fails; and a session without the COM object reaches SimAuto in
\* no method.
C22_ExitReleasesHandle ==
    /\ [][(op'.name = "exit" /\ pwcom = "live") =>
            /\ Invoked(calls', "CloseCase")
            /\ pwcom' = "none"]_vars
    /\ [][pwcom = "none" => calls' = << >>]_vars

\* SimAuto was asked to list the objects of a type the case has no object
\* of, and answered (it threw nothing).
NothingListed ==
    /\ op.name = "ListOfDevices"
    /\ Len(ObjectsOf(simauto, Lower(op.ObjType))) = 0
    /\ Invoked(calls, "ListOfDevices")
    /\ result # Raise("COMError")

\* C23: ListOfDevices for a type with no object in the case returns None,
\* whether SimAuto answers with columns that are all None or with ('',).
C23_NoneWhenNothingListed == NothingListed => result = Return(NoneV)

-----------------------------------------------------------------------------
(* Properties of GetParametersSingleElement, checked under SpecReadOne.    *)

ReadOne == op.name = "GetParametersSingleElement"

\* C24: GetParametersSingleElement with a list of fields and a list of
\* values of different lengths raises AssertionError and invokes no SimAuto
\* function.
C24_LengthsAsserted ==
    (ReadOne /\ Len(op.ParamList) # Len(op.Values)) =>
        /\ result = Raise("AssertionError")
        /\ calls = << >>

\* The key values of a generator of the case, and no value for GenMW.
C24_Witness ==
    /\ ReadOne
    /\ op.ParamList = <<"BusNum", "GenID", "GenMW">>
    /\ op.Values = <<IntV(1), StrV(<<"1">>)>>
    /\ result = Raise("AssertionError")

\* The call set_simauto_property just made, when its input fails the
\* validation of lines 503-523.
SetsInvalidProperty ==
    /\ op'.name = "set_simauto_property"
    /\ \/ op'.property_name \notin { "CreateIfNotFound", "CurrentDir", "UIVisible" }
       \/ op'.property_value.t # SIMAUTO_PROPERTIES[op'.property_name]
       \/ /\ op'.property_name = "CurrentDir"
          /\ op'.property_value \notin ExistingDirs

\* C25: set_simauto_property sends the value to SimAuto only after
\* validating it: a name outside CreateIfNotFound, CurrentDir, UIVisible, a
\* value of the wrong type, or a CurrentDir that is not an existing
\* directory raises ValueError and leaves the remote property unchanged.
C25_InvalidPropertyNotSent ==
    [][SetsInvalidProperty
           => result' = Raise("ValueError") /\ properties' = properties]_vars

\* A CurrentDir that is no directory was refused while the COM object
\* was there, and an earlier call had set a property.
C25_Witness ==
    /\ op.name = "set_simauto_property"
    /\ op.property_name = "CurrentDir"
    /\ op.property_value = StrV(<<"n", "o">>)
    /\ result = Raise("ValueError")
    /\ pwcom # "none"
    /\ properties.UIVisible = BoolV(TRUE)

\* A catalog in ascending order of internal field name.
SortedByName(rows) ==
    \A i \in 1..(Len(rows) - 1) :
        NameRank(rows[i].internal_field_name)
            <= NameRank(rows[i + 1].internal_field_name)

\* C27: in every reachable state every object type in the key-field cache
\* is also in the catalog cache, and every cached catalog is sorted
\* ascending by internal field name.
C27_CachesConsistent ==
    /\ DOMAIN object_key_fields \subseteq DOMAIN object_fields
    /\ \A ot \in DOMAIN object_fields : SortedByName(object_fields[ot])

\* get_key_fields_for_object_type just fetched a catalog of several rows
\* and cached it and its key fields.
C27_Witness ==
    /\ op.name = "get_key_fields_for_object_type"
    /\ calls # << >>
    /\ result.o = "return"
    /\ Lower(op.ObjectType) \in DOMAIN object_key_fields
    /\ Len(object_fields[Lower(op.ObjectType)]) >= 2

\* The object types whose remote GetFieldList call raised in a call log.
FailedFetches(log) ==
    { log[i].ot : i \in { j \in 1..Len(log) :
                            log[j].f = "GetFieldList" /\ log[j].raised } }

\* GetFieldList(ObjectType) asked SimAuto and did not get a catalog.
FetchFailed ==
    \/ FailedFetches(calls') # { }
    \/ /\ op'.name = "GetFieldList"
       /\ Invoked(calls', "GetFieldList")
       /\ result'.o = "raise"

\* C30: a failing catalog fetch leaves the caches unchanged: no entry is
\* added to either cache, and the next lookup of the type invokes the
\* remote GetFieldList again.
C30_FailedFetchNotCached ==
    /\ [][FetchFailed => /\ object_fields' = object_fields
                         /\ object_key_fields' = object_key_fields]_vars
    /\ [][\A ot \in FailedFetches(calls) :
              (op'.name \in { "GetFieldList", "get_key_fields_for_object_type" }
                  /\ Lower(op'.ObjectType) = ot)
              => \E i \in 1..Len(calls') :
                    calls'[i].f = "GetFieldList" /\ calls'[i].ot = ot]_vars

\* GetFieldList asked SimAuto for a type, the call raised, and the type is
\* in neither cache while another type is cached.
C30_Witness ==
    /\ op.name = "GetFieldList"
    /\ FailedFetches(calls) = { Lower(op.ObjectType) }
    /\ Lower(op.ObjectType) \notin DOMAIN object_fields \cup DOMAIN object_key_fields
    /\ object_fields # << >>

\* A table as clean_df_or_series leaves one, ncols being the mask of the
\* numeric columns: numeric cells are numbers, the others stripped
\* strings, and with a BusNum column the rows are in ascending BusNum
\* order under the index 0, 1, 2, ...
IsClean(tab, ncols) ==
    /\ \A i \in 1..Len(tab.data) : \A j \in 1..Len(tab.columns) :
            IF ncols[j] THEN tab.data[i][j].t \in { "int", "nan" }
            ELSE /\ tab.data[i][j].t = "str"
                 /\ Strip(tab.data[i][j].s) = tab.data[i][j].s
    /\ (\E j \in 1..Len(tab.columns) : tab.columns[j] = "BusNum")
        => /\ tab.index = [i \in 1..Len(tab.data) |-> i - 1]
           /\ \A a, b \in 1..Len(tab.data) :
                  a < b => ~CellBefore(tab.data[b][ColumnOf(tab, "BusNum")],
                                       tab.data[a][ColumnOf(tab, "BusNum")])

\* The tables the cleaning of a given table may produce, under the
\* catalogs SimAuto has for the type.
CleanedVersions(given, ObjectType) ==
    UNION { { out.val : out \in { o \in CleanOutcomes(given.tab,
                                        IdentifyNumeric(SortByName(c),
                                                        given.tab.columns).val) :
                                    o.o = "return" } } :
            c \in { d \in RemoteCatalogs(Lower(ObjectType)) :
                      IdentifyNumeric(SortByName(d), given.tab.columns).o = "return" } }

\* The caller's table is the cleaned one.
CallerTableCleaned ==
    /\ caller_obj \in CleanedVersions(op.command_df, op.ObjectType)
    /\ IsClean(caller_obj.tab,
               IdentifyNumeric(object_fields[Lower(op.ObjectType)],
                               caller_obj.tab.columns).val)

\* A bulk write that sent its table to SimAuto.
WriteSent ==
    /\ op.name \in WriteMethods
    /\ Invoked(calls, "ChangeParametersMultipleElement")

\* C29, as amended: clean_df_or_series works in place and returns the very
\* object it was given; both bulk writes leave the caller's command table
\* cleaned (numeric columns coerced, text trimmed, rows sorted and
\* re-indexed when BusNum is present) whenever the cleaning succeeded and
\* the write was sent, also when the call then ends in
\* CommandNotRespectedError or in a remote error of the write or re-read.
C29_CleanedInPlace ==
    /\ (op.name = "clean_df_or_series" /\ result.o = "return")
        => /\ caller_obj = result.val
           /\ caller_obj \in CleanedVersions(op.obj, op.ObjectType)
           /\ IsClean(caller_obj.tab,
                      IdentifyNumeric(object_fields[Lower(op.ObjectType)],
                                      caller_obj.tab.columns).val)
    /\ WriteSent => CallerTableCleaned

\* A verified write of a table with cells to trim was rejected, and the
\* caller's table is the cleaned one.
C29_Witness ==
    /\ op.name = "change_and_confirm_params_multiple_element"
    /\ result = Raise("CommandNotRespectedError")
    /\ caller_obj # op.command_df
    /\ CallerTableCleaned

\* C29, as stated: a bulk write that ends in CommandNotRespectedError or
\* in a remote error leaves the caller's command table cleaned.
C29_CleanedOnAnyRemoteError ==
    (/\ op.name \in WriteMethods
     /\ result.o = "raise"
     /\ result.exc \in { "CommandNotRespectedError" } \cup RemoteErrors)
        => caller_obj \in CleanedVersions(op.command_df, op.ObjectType)

\* A thread whose verified write came to its read back and ended.
ReadBackDone(c) == callers[c].pc = "done" /\ callers[c].cleaned_df # NoneV

\* C26: verified writes are serializable per call: when two calls of
\* change_and_confirm_params_multiple_element on the same object type
\* interleave between their SimAuto calls, each call ends with the outcome
\* it has when the two run one after the other; no call is rejected or
\* confirmed because of a write of the other call that landed between its
\* own write and its own read back.
C26_OutcomeAsIfAlone ==
    \A c \in DOMAIN callers : ReadBackDone(c) => callers[c].result \in callers[c].alone
====
